---- MODULE Spec2Model ----
(***************************************************************************)
(* Model of the financial statement normalisation pipeline of              *)
(* src/data/preprocess.py (FinancialDataProcessor) and of the manual       *)
(* upload handler of src/main_app.py.                                      *)
(*                                                                         *)
(* Conventions                                                             *)
(*  - A pandas DataFrame is a sequence of records (rows, in row order).    *)
(*  - Python None / pandas NaN / NaT: the string "None" for text and       *)
(*    ternary fields, 0 for dates.                                         *)
(*  - A date is the integer yyyymmdd (20240930); its order is the          *)
(*    calendar order.                                                      *)
(*  - A text on which the code runs a regular expression is a string id    *)
(*    of the vocabulary below; Spell gives its characters and the regular  *)
(*    expressions are evaluated on the characters.                         *)
(*  - Korean literals of the source are written in ASCII:                  *)
(*      매출액 "Sales", 매출원가 "CostOfSales", 매출총이익 "GrossProfit",  *)
(*      판매비와관리비 "SGA", 영업이익 "OperatingIncome",                  *)
(*      영업외수익 "NonOpIncome", 영업외비용 "NonOpExpense",               *)
(*      당기순이익 "NetIncome", 구분 "label", _원시값 "_raw",              *)
(*      조원 "jo", 억원 "eok", 만원 "man", 원 "won", ▼ "down",             *)
(*      영업이익률(%) "OperatingMargin", 매출총이익률(%) "GrossMargin",    *)
(*      순이익률(%) "NetMargin", 매출원가율(%) "CostRatio",                *)
(*      판관비율(%) "SGARatio".                                            *)
(*  - An optional value that is a table is a sequence of length 0 or 1.    *)
(*  - Amounts are integers (the floats of the source hold them exactly).   *)
(***************************************************************************)
EXTENDS Integers, Sequences, FiniteSets, TLC

VARIABLES
    pc,             \* position of the modelled run
    \* _xbrl_to_facts, one document
    parsed,         \* the parsed document (soup)
    txt,            \* the stripped text of one element
    val,            \* what the numeric coercion made of it
    \* load_file and _slice_to_quarter, one document
    rpt,            \* report type handed to _slice_to_quarter
    facts,          \* joined fact table (output of _xbrl_to_facts)
    f_krw,          \* _slice_to_quarter: f after the currency filter
    f_cfs,          \* _slice_to_quarter: f after the consolidation filter
    sliced,         \* the table handed to _facts_to_items
    items,          \* the dict returned by _facts_to_items
    raised,         \* an exception left the call
    stmt,           \* the table returned by _build_statement
    \* merge_company_data
    dataframes,     \* the list of per-company tables
    merged,         \* the merged table
    pandas,         \* the installed pandas: how an outer join orders its keys
    \* the manual upload handler of main_app
    uploaded_files, \* the files of the batch
    cursor,         \* number of files of the batch already processed
    run,            \* what the last load_file call did
    session,        \* st.session_state: the keys the handler writes
    messages        \* the messages the current script run has shown from
                    \* the DART handler (lines 61-95) and the upload handler
                    \* (lines 182-206, with load_file and the merger); the
                    \* text a run shows outside the two handlers (the notes
                    \* of lines 59 and 172, the result displays of lines
                    \* 98-169 and 208-251, the other tabs) is no part of it

vars == <<pc, parsed, txt, val, rpt, facts, f_krw, f_cfs, sliced, items, raised, stmt,
          dataframes, merged, pandas, uploaded_files, cursor, run, session, messages>>

\* the variables of each part
extractVars == <<parsed, txt, val>>
sliceVars == <<rpt, facts, f_krw, f_cfs, sliced>>
mapVars   == <<items, raised>>
mergeVars == <<dataframes, merged, pandas>>
appVars   == <<uploaded_files, cursor, run, session, messages>>

None == "None"

---------------------------------------------------------------------------
(* Generic helpers.                                                        *)

Range(s) == { s[i] : i \in 1..Len(s) }

Abs(v) == IF v < 0 THEN -v ELSE v

SetMax(S) == CHOOSE x \in S : \A y \in S : y <= x

\* {} (an empty dict)
EmptyDict == [k \in {} |-> 0]

---------------------------------------------------------------------------
(* Texts: the vocabulary of the model and the string operations of the     *)
(* source, evaluated on characters.                                        *)

Vocabulary ==
    {"ifrs-full:Revenue", "revenue", "sales",
     "salesrevenue", "operatingrevenue", "revenuefromcontractswithcustomers",
     "costofsales", "costofrevenue", "costofgoodssold",
     "grossprofit", "grossincome", "sellinggeneraladministrativeexpenses",
     "sellingandadministrativeexpenses", "sga", "profitlossfromoperatingactivities",
     "operatingincome", "operatingprofit", "profitloss",
     "netincome", "netprofit", "nonoperatingincome",
     "otherincome", "financialincome", "nonoperatingexpense",
     "otherexpense", "financialcost", "interestexpense",
     "ifrs-full:GrossProfit", "dart:NetSales", "ifrs-full:ProfitLoss",
     "ifrs-full:Assets", "{ifrs}Revenue", "netsales",
     "assets", "costofgoods", "selling",
     "administrative", "iso4217:KRW", "iso4217:USD",
     "Won", "None",
     \* file names and the company name cleaned from one
     "sk_q3.xml", "gscaltex.xml", "report.xml", "_.xml", "report",
     \* context ids, unit ids and the name of the root element
     "D_0101_0331", "D_0401_0630", "D_0701_0930",
     "D_1001_1231", "D_0101_0630", "D_0101_0930",
     "D_0101_1231", "P_0701_0930", "I_0930",
     "D_0701_0930_CFS", "D_0701_0930_SEP", "D_0101_0930_CFS",
     "D_0101_0930_SEP", "I_0930_CFS", "I_0930_SEP",
     "D_0601_0831", "D_0701_bad", "P_0101_0630",
     \* element names and texts of a context element; 연결 is "ko-consolidated"
     \* (characters "U+C5F0", "U+ACB0"), 별도 is "ko-separate" ("U+BCC4",
     \* "U+B3C4")
     "xbrli:segment", "Segment", "xbrli:entity", "xbrli:period",
     "dart:ConsolidatedMember", "dart:SeparateMember", "dart:cfs",
     "dart:OperatingSegmentsMember", "2024-09-30",
     "ko-consolidated", "ko-separate", "value",
     "KRW", "USD", "xbrl"}

\* the characters of a text of the vocabulary
SpellOf(s) ==
    CASE s = "ifrs-full:Revenue" ->
           <<"i", "f", "r", "s", "-", "f", "u", "l", "l", ":", "R", "e", "v", "e", "n", "u", "e">>
      [] s = "revenue" ->
           <<"r", "e", "v", "e", "n", "u", "e">>
      [] s = "sales" ->
           <<"s", "a", "l", "e", "s">>
      [] s = "salesrevenue" ->
           <<"s", "a", "l", "e", "s", "r", "e", "v", "e", "n", "u", "e">>
      [] s = "operatingrevenue" ->
           <<"o", "p", "e", "r", "a", "t", "i", "n", "g", "r", "e", "v", "e", "n", "u", "e">>
      [] s = "revenuefromcontractswithcustomers" ->
           <<"r", "e", "v", "e", "n", "u", "e", "f", "r", "o", "m", "c", "o", "n", "t", "r", "a", "c", "t", "s", "w", "i", "t", "h", "c", "u", "s", "t", "o", "m", "e", "r", "s">>
      [] s = "costofsales" ->
           <<"c", "o", "s", "t", "o", "f", "s", "a", "l", "e", "s">>
      [] s = "costofrevenue" ->
           <<"c", "o", "s", "t", "o", "f", "r", "e", "v", "e", "n", "u", "e">>
      [] s = "costofgoodssold" ->
           <<"c", "o", "s", "t", "o", "f", "g", "o", "o", "d", "s", "s", "o", "l", "d">>
      [] s = "grossprofit" ->
           <<"g", "r", "o", "s", "s", "p", "r", "o", "f", "i", "t">>
      [] s = "grossincome" ->
           <<"g", "r", "o", "s", "s", "i", "n", "c", "o", "m", "e">>
      [] s = "sellinggeneraladministrativeexpenses" ->
           <<"s", "e", "l", "l", "i", "n", "g", "g", "e", "n", "e", "r", "a", "l", "a", "d", "m", "i", "n", "i", "s", "t", "r", "a", "t", "i", "v", "e", "e", "x", "p", "e", "n", "s", "e", "s">>
      [] s = "sellingandadministrativeexpenses" ->
           <<"s", "e", "l", "l", "i", "n", "g", "a", "n", "d", "a", "d", "m", "i", "n", "i", "s", "t", "r", "a", "t", "i", "v", "e", "e", "x", "p", "e", "n", "s", "e", "s">>
      [] s = "sga" ->
           <<"s", "g", "a">>
      [] s = "profitlossfromoperatingactivities" ->
           <<"p", "r", "o", "f", "i", "t", "l", "o", "s", "s", "f", "r", "o", "m", "o", "p", "e", "r", "a", "t", "i", "n", "g", "a", "c", "t", "i", "v", "i", "t", "i", "e", "s">>
      [] s = "operatingincome" ->
           <<"o", "p", "e", "r", "a", "t", "i", "n", "g", "i", "n", "c", "o", "m", "e">>
      [] s = "operatingprofit" ->
           <<"o", "p", "e", "r", "a", "t", "i", "n", "g", "p", "r", "o", "f", "i", "t">>
      [] s = "profitloss" ->
           <<"p", "r", "o", "f", "i", "t", "l", "o", "s", "s">>
      [] s = "netincome" ->
           <<"n", "e", "t", "i", "n", "c", "o", "m", "e">>
      [] s = "netprofit" ->
           <<"n", "e", "t", "p", "r", "o", "f", "i", "t">>
      [] s = "nonoperatingincome" ->
           <<"n", "o", "n", "o", "p", "e", "r", "a", "t", "i", "n", "g", "i", "n", "c", "o", "m", "e">>
      [] s = "otherincome" ->
           <<"o", "t", "h", "e", "r", "i", "n", "c", "o", "m", "e">>
      [] s = "financialincome" ->
           <<"f", "i", "n", "a", "n", "c", "i", "a", "l", "i", "n", "c", "o", "m", "e">>
      [] s = "nonoperatingexpense" ->
           <<"n", "o", "n", "o", "p", "e", "r", "a", "t", "i", "n", "g", "e", "x", "p", "e", "n", "s", "e">>
      [] s = "otherexpense" ->
           <<"o", "t", "h", "e", "r", "e", "x", "p", "e", "n", "s", "e">>
      [] s = "financialcost" ->
           <<"f", "i", "n", "a", "n", "c", "i", "a", "l", "c", "o", "s", "t">>
      [] s = "interestexpense" ->
           <<"i", "n", "t", "e", "r", "e", "s", "t", "e", "x", "p", "e", "n", "s", "e">>
      [] s = "ifrs-full:GrossProfit" ->
           <<"i", "f", "r", "s", "-", "f", "u", "l", "l", ":", "G", "r", "o", "s", "s", "P", "r", "o", "f", "i", "t">>
      [] s = "dart:NetSales" ->
           <<"d", "a", "r", "t", ":", "N", "e", "t", "S", "a", "l", "e", "s">>
      [] s = "ifrs-full:ProfitLoss" ->
           <<"i", "f", "r", "s", "-", "f", "u", "l", "l", ":", "P", "r", "o", "f", "i", "t", "L", "o", "s", "s">>
      [] s = "ifrs-full:Assets" ->
           <<"i", "f", "r", "s", "-", "f", "u", "l", "l", ":", "A", "s", "s", "e", "t", "s">>
      [] s = "{ifrs}Revenue" ->
           <<"{", "i", "f", "r", "s", "}", "R", "e", "v", "e", "n", "u", "e">>
      [] s = "netsales" ->
           <<"n", "e", "t", "s", "a", "l", "e", "s">>
      [] s = "assets" ->
           <<"a", "s", "s", "e", "t", "s">>
      [] s = "costofgoods" ->
           <<"c", "o", "s", "t", "o", "f", "g", "o", "o", "d", "s">>
      [] s = "selling" ->
           <<"s", "e", "l", "l", "i", "n", "g">>
      [] s = "administrative" ->
           <<"a", "d", "m", "i", "n", "i", "s", "t", "r", "a", "t", "i", "v", "e">>
      [] s = "iso4217:KRW" ->
           <<"i", "s", "o", "4", "2", "1", "7", ":", "K", "R", "W">>
      [] s = "iso4217:USD" ->
           <<"i", "s", "o", "4", "2", "1", "7", ":", "U", "S", "D">>
      [] s = "Won" ->
           <<"W", "o", "n">>
      [] s = "None" ->
           <<"N", "o", "n", "e">>
      [] s = "sk_q3.xml" ->
           <<"s", "k", "_", "q", "3", ".", "x", "m", "l">>
      [] s = "gscaltex.xml" ->
           <<"g", "s", "c", "a", "l", "t", "e", "x", ".", "x", "m", "l">>
      [] s = "report.xml" ->
           <<"r", "e", "p", "o", "r", "t", ".", "x", "m", "l">>
      [] s = "_.xml" ->
           <<"_", ".", "x", "m", "l">>
      [] s = "report" ->
           <<"r", "e", "p", "o", "r", "t">>
      [] s = "D_0101_0331" ->
           <<"D", "_", "0", "1", "0", "1", "_", "0", "3", "3", "1">>
      [] s = "D_0401_0630" ->
           <<"D", "_", "0", "4", "0", "1", "_", "0", "6", "3", "0">>
      [] s = "D_0701_0930" ->
           <<"D", "_", "0", "7", "0", "1", "_", "0", "9", "3", "0">>
      [] s = "D_1001_1231" ->
           <<"D", "_", "1", "0", "0", "1", "_", "1", "2", "3", "1">>
      [] s = "D_0101_0630" ->
           <<"D", "_", "0", "1", "0", "1", "_", "0", "6", "3", "0">>
      [] s = "D_0101_0930" ->
           <<"D", "_", "0", "1", "0", "1", "_", "0", "9", "3", "0">>
      [] s = "D_0101_1231" ->
           <<"D", "_", "0", "1", "0", "1", "_", "1", "2", "3", "1">>
      [] s = "P_0701_0930" ->
           <<"P", "_", "0", "7", "0", "1", "_", "0", "9", "3", "0">>
      [] s = "I_0930" ->
           <<"I", "_", "0", "9", "3", "0">>
      [] s = "D_0701_0930_CFS" ->
           <<"D", "_", "0", "7", "0", "1", "_", "0", "9", "3", "0", "_", "C", "F", "S">>
      [] s = "D_0701_0930_SEP" ->
           <<"D", "_", "0", "7", "0", "1", "_", "0", "9", "3", "0", "_", "S", "E", "P">>
      [] s = "D_0101_0930_CFS" ->
           <<"D", "_", "0", "1", "0", "1", "_", "0", "9", "3", "0", "_", "C", "F", "S">>
      [] s = "D_0101_0930_SEP" ->
           <<"D", "_", "0", "1", "0", "1", "_", "0", "9", "3", "0", "_", "S", "E", "P">>
      [] s = "I_0930_CFS" ->
           <<"I", "_", "0", "9", "3", "0", "_", "C", "F", "S">>
      [] s = "I_0930_SEP" ->
           <<"I", "_", "0", "9", "3", "0", "_", "S", "E", "P">>
      [] s = "D_0601_0831" ->
           <<"D", "_", "0", "6", "0", "1", "_", "0", "8", "3", "1">>
      [] s = "D_0701_bad" ->
           <<"D", "_", "0", "7", "0", "1", "_", "b", "a", "d">>
      [] s = "P_0101_0630" ->
           <<"P", "_", "0", "1", "0", "1", "_", "0", "6", "3", "0">>
      [] s = "xbrli:segment" ->
           <<"x", "b", "r", "l", "i", ":", "s", "e", "g", "m", "e", "n", "t">>
      [] s = "Segment" ->
           <<"S", "e", "g", "m", "e", "n", "t">>
      [] s = "xbrli:entity" ->
           <<"x", "b", "r", "l", "i", ":", "e", "n", "t", "i", "t", "y">>
      [] s = "xbrli:period" ->
           <<"x", "b", "r", "l", "i", ":", "p", "e", "r", "i", "o", "d">>
      [] s = "dart:ConsolidatedMember" ->
           <<"d", "a", "r", "t", ":", "C", "o", "n", "s", "o", "l", "i", "d", "a", "t", "e", "d", "M", "e", "m", "b", "e", "r">>
      [] s = "dart:SeparateMember" ->
           <<"d", "a", "r", "t", ":", "S", "e", "p", "a", "r", "a", "t", "e", "M", "e", "m", "b", "e", "r">>
      [] s = "dart:cfs" ->
           <<"d", "a", "r", "t", ":", "c", "f", "s">>
      [] s = "dart:OperatingSegmentsMember" ->
           <<"d", "a", "r", "t", ":", "O", "p", "e", "r", "a", "t", "i", "n", "g", "S", "e", "g", "m", "e", "n", "t", "s", "M", "e", "m", "b", "e", "r">>
      [] s = "2024-09-30" ->
           <<"2", "0", "2", "4", "-", "0", "9", "-", "3", "0">>
      [] s = "ko-consolidated" ->
           <<"U+C5F0", "U+ACB0">>
      [] s = "ko-separate" ->
           <<"U+BCC4", "U+B3C4">>
      [] s = "value" ->
           <<"v", "a", "l", "u", "e">>
      [] s = "KRW" ->
           <<"K", "R", "W">>
      [] s = "USD" ->
           <<"U", "S", "D">>
      [] s = "xbrl" ->
           <<"x", "b", "r", "l">>

Spell == [s \in Vocabulary |-> SpellOf(s)]

\* the text of the vocabulary with the given characters
Unspell(chars) == CHOOSE s \in Vocabulary : Spell[s] = chars

\* str.lower() on one character
LowerChar(c) ==
    CASE c = "A" -> "a" [] c = "B" -> "b" [] c = "C" -> "c" [] c = "D" -> "d"
      [] c = "E" -> "e" [] c = "F" -> "f" [] c = "G" -> "g" [] c = "H" -> "h"
      [] c = "I" -> "i" [] c = "J" -> "j" [] c = "K" -> "k" [] c = "L" -> "l"
      [] c = "M" -> "m" [] c = "N" -> "n" [] c = "O" -> "o" [] c = "P" -> "p"
      [] c = "Q" -> "q" [] c = "R" -> "r" [] c = "S" -> "s" [] c = "T" -> "t"
      [] c = "U" -> "u" [] c = "V" -> "v" [] c = "W" -> "w" [] c = "X" -> "x"
      [] c = "Y" -> "y" [] c = "Z" -> "z" [] OTHER -> c

\* str.lower()
Lower(chars) == [i \in 1..Len(chars) |-> LowerChar(chars[i])]

\* chars[i..] starts with t
MatchAt(chars, t, i) ==
    /\ i + Len(t) - 1 <= Len(chars)
    /\ \A k \in 1..Len(t) : chars[i + k - 1] = t[k]

\* re.search(t, chars) for a literal t
Contains(chars, t) == \E i \in 1..Len(chars) : MatchAt(chars, t, i)

\* re.search(t + '$', chars) for a literal t (the texts hold no newline)
EndsWith(chars, t) ==
    /\ Len(t) <= Len(chars)
    /\ MatchAt(chars, t, Len(chars) - Len(t) + 1)

\* re.search(a + '.*' + b, chars) for literals a and b
ContainsThen(chars, a, b) ==
    \E i \in 1..Len(chars) :
        /\ MatchAt(chars, a, i)
        /\ \E j \in (i + Len(a))..Len(chars) : MatchAt(chars, b, j)

\* s.split(sep)[-1] for a one-character sep
AfterLast(chars, sep) ==
    LET hits == { i \in 1..Len(chars) : chars[i] = sep }
    IN  IF hits = {} THEN chars
        ELSE SubSeq(chars, SetMax(hits) + 1, Len(chars))

\* _localname, on characters
LocalNameChars(chars) ==
    IF chars = <<>> THEN <<>>
    ELSE Lower(AfterLast(AfterLast(chars, "}"), ":"))

\* _localname(qname)
_localname(qname) == Unspell(LocalNameChars(Spell[qname]))

\* _KRW_RE = re.compile(r'(krw|원|won)', re.IGNORECASE), searched in a text;
\* the Hangul syllable 원 is the character "U+C6D0" of a spelling
KRW_RE(chars) ==
    \/ Contains(Lower(chars), <<"k", "r", "w">>)
    \/ Contains(Lower(chars), <<"U+C6D0">>)
    \/ Contains(Lower(chars), <<"w", "o", "n">>)

\* f['unit'].astype(str).str.contains(_KRW_RE, na=False), per unit text
\* (astype(str) turns a missing unit into the text 'None')
UnitIsKRW == [u \in Vocabulary |-> KRW_RE(Spell[u])]

---------------------------------------------------------------------------
(* Dates.                                                                  *)

NaT == 0
YearOf(d) == d \div 10000
MonthOf(d) == (d \div 100) % 100

---------------------------------------------------------------------------
(* _xbrl_to_facts: the joined fact table.                                  *)
(*                                                                         *)
(* The parsed document (soup) is the record of what _xbrl_to_facts reads   *)
(* from it:                                                                *)
(*   contexts  the context elements carrying an id, in tree order, each    *)
(*             [context_id, period_type, start, end, is_consolidated] as   *)
(*             lines 160-179 compute them (dates already through           *)
(*             pd.to_datetime(errors='coerce'): NaT = 0)                   *)
(*   units     unit id -> measure text (lines 188-193)                     *)
(*   elements  the elements carrying a contextRef and a numeric text, in   *)
(*             tree order, each [name, value, unitRef, contextRef]         *)

(*                                                                         *)
(* Numeric coercion, line 202 (line 353 is the same expression):           *)
(*   float(re.sub(r'[^\d\.-]', '', text.replace('(', '-').replace(')', '')))*)
(* on the characters of a stripped text. A float is the record             *)
(* [neg, digits, scale] of the value (-1)^neg * digits / 10^scale with no  *)
(* trailing zero counted in scale (texts short enough to be read exactly). *)

Digits == {"0", "1", "2", "3", "4", "5", "6", "7", "8", "9"}

DigitValue(c) ==
    CASE c = "0" -> 0 [] c = "1" -> 1 [] c = "2" -> 2 [] c = "3" -> 3
      [] c = "4" -> 4 [] c = "5" -> 5 [] c = "6" -> 6 [] c = "7" -> 7
      [] c = "8" -> 8 [] c = "9" -> 9

\* faulty variant: the parentheses are only removed
ReplaceParens_Removed(chars) ==
    SelectSeq(chars, LAMBDA c : c \notin {"(", ")"})

\* text.replace('(', '-').replace(')', '')
ReplaceParens(chars) ==
    SelectSeq([i \in 1..Len(chars) |-> IF chars[i] = "(" THEN "-" ELSE chars[i]],
              LAMBDA c : c # ")")

\* re.sub(r'[^\d\.-]', '', s)
StripNonNumeric(chars) == SelectSeq(chars, LAMBDA c : c \in Digits \cup {".", "-"})

\* the number written by a run of digits
RECURSIVE DigitsValue(_)
DigitsValue(chars) ==
    IF chars = <<>> THEN 0
    ELSE 10 * DigitsValue(SubSeq(chars, 1, Len(chars) - 1))
         + DigitValue(chars[Len(chars)])

\* the float with the given sign, digits and number of fraction digits
RECURSIVE Float(_, _, _)
Float(neg, digits, scale) ==
    IF scale > 0 /\ digits % 10 = 0 THEN Float(neg, digits \div 10, scale - 1)
    ELSE [neg |-> neg, digits |-> digits, scale |-> scale]

\* float(s) for s of digits, '.' and '-': an optional sign, then digits with
\* at most one point and at least one digit; <<>> when float raises
ParseFloat(chars) ==
    LET neg  == chars # <<>> /\ chars[1] = "-"
        body == IF neg THEN Tail(chars) ELSE chars
        dots == { i \in 1..Len(body) : body[i] = "." }
        ds   == SelectSeq(body, LAMBDA c : c \in Digits)
    IN  IF \/ \E i \in 1..Len(body) : body[i] = "-"
           \/ Cardinality(dots) > 1
           \/ ds = <<>>
        THEN <<>>
        ELSE << Float(neg, DigitsValue(ds),
                      IF dots = {} THEN 0
                      ELSE Len(body) - (CHOOSE i \in dots : TRUE)) >>

\* the coercion of lines 201-204 and 352-355: the float, or <<>> when the
\* element is passed over
Coerce(chars) == ParseFloat(StripNonNumeric(ReplaceParens(chars)))

\* units.get(uref, uref)
ResolveUnit(units, uref) == IF uref \in DOMAIN units THEN units[uref] ELSE uref

\* the row of one fact element (lines 207-214)
FactRow(el, units, company) ==
    [company       |-> company,
     concept_qname |-> el.name,
     concept_local |-> _localname(el.name),
     value         |-> el.value,
     unit          |-> ResolveUnit(units, el.unitRef),
     context_id    |-> el.contextRef]

\* one row of df.merge(ctx_df, on='context_id', how='left'): the fact's
\* columns and the context's
Joined(row, c) ==
    [company         |-> row.company,
     concept_qname   |-> row.concept_qname,
     concept_local   |-> row.concept_local,
     value           |-> row.value,
     unit            |-> row.unit,
     context_id      |-> row.context_id,
     period_type     |-> c.period_type,
     start           |-> c.start,
     end             |-> c.end,
     is_consolidated |-> c.is_consolidated]

NullContext == [period_type |-> None, start |-> NaT, end |-> NaT, is_consolidated |-> None]

RECURSIVE MergeLeft(_, _)
\* df.merge(ctx_df, on='context_id', how='left'): for every fact row, in
\* order, one row per context row with its id; a fact whose id matches no
\* context row keeps null context columns
MergeLeft(rows, ctx_df) ==
    IF rows = <<>> THEN <<>>
    ELSE LET row  == Head(rows)
             hits == SelectSeq(ctx_df, LAMBDA c : c.context_id = row.context_id)
         IN  (IF hits = <<>> THEN << Joined(row, NullContext) >>
              ELSE [k \in 1..Len(hits) |-> Joined(row, hits[k])])
             \o MergeLeft(Tail(rows), ctx_df)

\* _xbrl_to_facts(soup, company)
_xbrl_to_facts(soup, company) ==
    IF soup.contexts = <<>> THEN <<>>
    ELSE LET rows == [k \in 1..Len(soup.elements) |->
                         FactRow(soup.elements[k], soup.units, company)]
         IN  MergeLeft(rows, soup.contexts)

---------------------------------------------------------------------------
(* _guess_report_type_by_month                                             *)

\* dur['end'].max(): the latest end date, NaT skipped; NaT when there is none
EndMax(dur) ==
    LET ends == { dur[i].end : i \in 1..Len(dur) } \ {NaT}
    IN  IF ends = {} THEN NaT ELSE SetMax(ends)

IsDuration(r) == r.period_type = "duration"

\* faulty variant: the latest end date of all the facts, instants included
_guess_report_type_by_month_AllFacts(df) ==
    IF EndMax(df) # NaT
    THEN LET m == MonthOf(EndMax(df))
         IN  CASE m = 3 -> "Q1" [] m = 6 -> "Q2" [] m = 9 -> "Q3"
               [] m = 12 -> "Q4" [] OTHER -> "Q3"
    ELSE "Q3"

_guess_report_type_by_month(df) ==
    LET dur == SelectSeq(df, IsDuration)
    IN  IF EndMax(dur) # NaT
        THEN LET m == MonthOf(EndMax(dur))
             IN  CASE m = 3 -> "Q1" [] m = 6 -> "Q2" [] m = 9 -> "Q3"
                   [] m = 12 -> "Q4" [] OTHER -> "Q3"
        ELSE "Q3"

---------------------------------------------------------------------------
(* _slice_to_quarter                                                       *)

\* line 236: f[f['unit'].astype(str).str.contains(_KRW_RE, na=False)]
CurrencyFilter(f) == SelectSeq(f, LAMBDA r : UnitIsKRW[r.unit])

\* faulty variant: drops the separate facts and keeps those of unknown scope
ConsolidatedFilter_KeepsUnknown(f) ==
    IF \E i \in 1..Len(f) : f[i].is_consolidated # None
    THEN SelectSeq(f, LAMBDA r : r.is_consolidated # "False")
    ELSE f

\* lines 237-239: keep the consolidated facts when there are any
ConsolidatedFilter(f) ==
    IF \E i \in 1..Len(f) : f[i].is_consolidated # None
    THEN IF \E i \in 1..Len(f) : f[i].is_consolidated = "True"
         THEN SelectSeq(f, LAMBDA r : r.is_consolidated = "True")
         ELSE f
    ELSE f

\* pick(start_m, end_m) of lines 248-250, for the year of line 247
Pick(dur, year, start_m, end_m) ==
    SelectSeq(dur, LAMBDA r : /\ r.start # NaT /\ r.end # NaT
                              /\ MonthOf(r.start) = start_m
                              /\ MonthOf(r.end) = end_m
                              /\ YearOf(r.end) = year)

\* faulty variant: operands of the subtraction swapped
DiffRow_Swapped(y, prev) ==
    [concept_local |-> y.concept_local,
     concept_qname |-> y.concept_qname,
     value         |-> prev - y.value,
     unit          |-> y.unit,
     context_id    |-> <<y.context_id, "_QTD">>,
     start         |-> y.start,
     end           |-> y.end]

\* the synthesized row of _diff: the YTD row's columns of line 300, prev
\* subtracted (a missing prev is 0), the context id suffixed
DiffRow(y, prev) ==
    [concept_local |-> y.concept_local,
     concept_qname |-> y.concept_qname,
     value         |-> y.value - prev,
     unit          |-> y.unit,
     context_id    |-> <<y.context_id, "_QTD">>,
     start         |-> y.start,
     end           |-> y.end]

RECURSIVE _diff(_, _)
\* _diff(ytd, prev): y.merge(p, on='concept_local', how='left'), one row per
\* (YTD row, prior row of the same concept_local), or one row with prev = NaN
_diff(ytd, prev) ==
    IF ytd = <<>> THEN <<>>
    ELSE LET y    == Head(ytd)
             hits == SelectSeq(prev, LAMBDA p : p.concept_local = y.concept_local)
         IN  (IF hits = <<>> THEN << DiffRow(y, 0) >>
              ELSE [k \in 1..Len(hits) |-> DiffRow(y, hits[k].value)])
             \o _diff(Tail(ytd), prev)

\* faulty variant: synthesizes whenever YTD and prior exist, a tagged window or not
Window_NoDirectCheck(dur, year, qtd_w, ytd_w, prev_w) ==
    LET qtd  == Pick(dur, year, qtd_w[1], qtd_w[2])
        ytd  == Pick(dur, year, ytd_w[1], ytd_w[2])
        prev == Pick(dur, year, prev_w[1], prev_w[2])
    IN  IF ytd # <<>> /\ prev # <<>> THEN _diff(ytd, prev) ELSE qtd

\* lines 253-276: the window of the report type, or YTD minus prior
Window(dur, year, qtd_w, ytd_w, prev_w) ==
    LET qtd  == Pick(dur, year, qtd_w[1], qtd_w[2])
        ytd  == Pick(dur, year, ytd_w[1], ytd_w[2])
        prev == Pick(dur, year, prev_w[1], prev_w[2])
    IN  IF qtd = <<>> /\ ytd # <<>> /\ prev # <<>> THEN _diff(ytd, prev) ELSE qtd

\* lines 241-276, from the filtered table on
SelectQuarter(f, report_type) ==
    LET dur  == SelectSeq(f, IsDuration)
        year == YearOf(EndMax(dur))
    IN  IF dur = <<>> THEN <<>>
        ELSE CASE report_type = "Q1" -> Pick(dur, year, 1, 3)
               [] report_type = "Q2" -> Window(dur, year, <<4, 6>>, <<1, 6>>, <<1, 3>>)
               [] report_type = "Q3" -> Window(dur, year, <<7, 9>>, <<1, 9>>, <<1, 6>>)
               [] OTHER              -> Window(dur, year, <<10, 12>>, <<1, 12>>, <<1, 9>>)

\* _slice_to_quarter(facts, report_type)
_slice_to_quarter(df, report_type) ==
    SelectQuarter(ConsolidatedFilter(CurrencyFilter(df)), report_type)

---------------------------------------------------------------------------
(* _facts_to_items: the Concept Mapper.                                    *)

\* CONCEPT_MAP, in dict order
ConceptItems ==
    << "Sales", "CostOfSales", "GrossProfit", "SGA", "OperatingIncome",
       "NetIncome", "NonOpIncome", "NonOpExpense" >>

\* faulty variant: no alias list for the two secondary items
CONCEPT_MAP_PrimaryOnly(std) ==
    CASE std = "Sales" ->
           << "ifrs-full:Revenue", "revenue", "sales", "salesrevenue",
              "operatingrevenue", "revenuefromcontractswithcustomers" >>
      [] std = "CostOfSales" -> << "costofsales", "costofrevenue", "costofgoodssold" >>
      [] std = "GrossProfit" -> << "grossprofit", "grossincome" >>
      [] std = "SGA" ->
           << "sellinggeneraladministrativeexpenses",
              "sellingandadministrativeexpenses", "sga" >>
      [] std = "OperatingIncome" ->
           << "profitlossfromoperatingactivities", "operatingincome", "operatingprofit" >>
      [] std = "NetIncome" -> << "profitloss", "netincome", "netprofit" >>
      [] OTHER -> <<>>

CONCEPT_MAP(std) ==
    CASE std = "Sales" ->
           << "ifrs-full:Revenue", "revenue", "sales", "salesrevenue",
              "operatingrevenue", "revenuefromcontractswithcustomers" >>
      [] std = "CostOfSales" -> << "costofsales", "costofrevenue", "costofgoodssold" >>
      [] std = "GrossProfit" -> << "grossprofit", "grossincome" >>
      [] std = "SGA" ->
           << "sellinggeneraladministrativeexpenses",
              "sellingandadministrativeexpenses", "sga" >>
      [] std = "OperatingIncome" ->
           << "profitlossfromoperatingactivities", "operatingincome", "operatingprofit" >>
      [] std = "NetIncome" -> << "profitloss", "netincome", "netprofit" >>
      [] std = "NonOpIncome" -> << "nonoperatingincome", "otherincome", "financialincome" >>
      [] std = "NonOpExpense" ->
           << "nonoperatingexpense", "otherexpense", "financialcost", "interestexpense" >>

\* key = _localname(q) for every candidate q of an item (line 320)
AliasKeys ==
    [std \in Range(ConceptItems) |->
        [k \in 1..Len(CONCEPT_MAP(std)) |-> _localname(CONCEPT_MAP(std)[k])]]

\* CONCEPT_REGEX, in dict order
RegexItems ==
    << "Sales", "CostOfSales", "GrossProfit", "SGA", "OperatingIncome", "NetIncome" >>

\* re.search(CONCEPT_REGEX[std], text)
CONCEPT_REGEX(std, chars) ==
    CASE std = "Sales" ->
           EndsWith(chars, Spell["revenue"]) \/ EndsWith(chars, Spell["sales"])
      [] std = "CostOfSales" ->
           \/ EndsWith(chars, Spell["costofsales"])
           \/ EndsWith(chars, Spell["costofrevenue"])
           \/ EndsWith(chars, Spell["costofgoods"])
      [] std = "GrossProfit" -> EndsWith(chars, Spell["grossprofit"])
      [] std = "SGA" ->
           \/ ContainsThen(chars, Spell["selling"], Spell["administrative"])
           \/ EndsWith(chars, Spell["sga"])
      [] std = "OperatingIncome" ->
           \/ EndsWith(chars, Spell["profitlossfromoperatingactivities"])
           \/ EndsWith(chars, Spell["operatingprofit"])
           \/ EndsWith(chars, Spell["operatingincome"])
      [] std = "NetIncome" ->
           \/ EndsWith(chars, Spell["profitloss"])
           \/ EndsWith(chars, Spell["netincome"])
           \/ EndsWith(chars, Spell["netprofit"])

\* df['concept_local'].str.contains(rx, regex=True, na=False), per text
RegexHit ==
    [std \in Range(RegexItems) |-> [n \in Vocabulary |-> CONCEPT_REGEX(std, Spell[n])]]

\* df[df['concept_local']==key]['value']: a Series, each entry with the index
\* label of its row (the row's position in df: the labels of df are unique)
ValuesOf(df, Test(_)) ==
    LET hits == SelectSeq([i \in 1..Len(df) |-> [label |-> i, row |-> df[i]]],
                          LAMBDA e : Test(e.row))
    IN  [k \in 1..Len(hits) |-> [label |-> hits[k].label, value |-> hits[k].row.value]]

RECURSIVE ConcatCandidates(_, _)
\* pd.concat(vals), vals holding one selection per candidate key (lines 318-322)
ConcatCandidates(df, keys) ==
    IF keys = <<>> THEN <<>>
    ELSE ValuesOf(df, LAMBDA r : r.concept_local = Head(keys))
         \o ConcatCandidates(df, Tail(keys))

RECURSIVE OrdersByAbs(_, _)
\* the listings of the positions `left` of s by falling magnitude
OrdersByAbs(s, left) ==
    IF left = {} THEN { <<>> }
    ELSE UNION { { <<i>> \o o : o \in OrdersByAbs(s, left \ {i}) } :
                 i \in { j \in left :
                            \A k \in left : Abs(s[j].value) >= Abs(s[k].value) } }

\* s.abs().sort_values(ascending=False): the positions of s by falling
\* magnitude. The default kind of sort_values is quicksort, which is not
\* stable: entries of equal magnitude come in an order the installed numpy
\* decides, so every listing by falling magnitude is one the call can return.
SortedByAbs(s) == OrdersByAbs(s, 1..Len(s))

Labels(s) == [k \in 1..Len(s) |-> s[k].label]

HasDuplicateLabels(s) == \E i, j \in 1..Len(s) : i # j /\ s[i].label = s[j].label

\* s.reindex(target) raises ValueError ("cannot reindex on an axis with
\* duplicate labels") when the index of s holds a label twice, unless target
\* equals the index of s; target lists the labels of s in a sorted order
ReindexRaises(s, order) ==
    /\ HasDuplicateLabels(s)
    /\ [k \in 1..Len(s) |-> s[order[k]].label] # Labels(s)

\* s.reindex(target).iloc[0], when it does not raise
Dominant(s, order) == s[order[1]].value

\* s.reindex(s.abs().sort_values(ascending=False).index).iloc[0] for a
\* non-empty s: what the statement can do, <<"raise">> or <<"value", v>>
Picks(s) ==
    { IF ReindexRaises(s, o) THEN <<"raise">> ELSE <<"value", Dominant(s, o)>> :
        o \in SortedByAbs(s) }

\* what a call of the mapper can do: raise, or return a dict
Raised == [raised |-> TRUE, items |-> EmptyDict]

Returned(dict) == [raised |-> FALSE, items |-> dict]

\* the Series s of line 322 for an item
ExactSeries(df, std) == ConcatCandidates(df, AliasKeys[std])

\* the Series s of line 332 for an item
RegexSeries(df, std) == ValuesOf(df, LAMBDA r : RegexHit[std][r.concept_local])

RECURSIVE ExactFrom(_, _, _)
\* lines 317-325 from the k-th item of CONCEPT_MAP on, dict holding the items
\* set so far
ExactFrom(df, k, dict) ==
    IF k > Len(ConceptItems) THEN { Returned(dict) }
    ELSE IF ExactSeries(df, ConceptItems[k]) = <<>> THEN ExactFrom(df, k + 1, dict)
    ELSE UNION { IF p[1] = "raise" THEN { Raised }
                 ELSE ExactFrom(df, k + 1, dict @@ (ConceptItems[k] :> p[2])) :
                 p \in Picks(ExactSeries(df, ConceptItems[k])) }

\* the exact pass (lines 317-325): the dicts it can leave, and Raised where
\* line 324 can raise
ExactPass(df) == ExactFrom(df, 1, EmptyDict)

RECURSIVE RegexFrom(_, _, _)
\* lines 328-334 from the k-th item of CONCEPT_REGEX on
RegexFrom(df, k, dict) ==
    IF k > Len(RegexItems) THEN { Returned(dict) }
    ELSE IF RegexItems[k] \in DOMAIN dict \/ RegexSeries(df, RegexItems[k]) = <<>>
    THEN RegexFrom(df, k + 1, dict)
    ELSE UNION { IF p[1] = "raise" THEN { Raised }
                 ELSE RegexFrom(df, k + 1, dict @@ (RegexItems[k] :> p[2])) :
                 p \in Picks(RegexSeries(df, RegexItems[k])) }

\* the regex pass (lines 328-334) on the items of the exact pass
RegexPass(df, dict) == RegexFrom(df, 1, dict)

\* faulty variant: gross profit is never derived
DeriveGrossProfit_Skipped(dict) == dict

\* faulty variant: the derived value replaces a mapped gross profit
DeriveGrossProfit_Overwrites(dict) ==
    IF "Sales" \in DOMAIN dict /\ "CostOfSales" \in DOMAIN dict
    THEN [std \in DOMAIN dict \cup {"GrossProfit"} |->
             IF std = "GrossProfit" THEN dict["Sales"] - dict["CostOfSales"]
             ELSE dict[std]]
    ELSE dict

\* lines 337-338
DeriveGrossProfit(dict) ==
    IF "GrossProfit" \notin DOMAIN dict /\ "Sales" \in DOMAIN dict
       /\ "CostOfSales" \in DOMAIN dict
    THEN [std \in DOMAIN dict \cup {"GrossProfit"} |->
             IF std = "GrossProfit" THEN dict["Sales"] - dict["CostOfSales"]
             ELSE dict[std]]
    ELSE dict

\* faulty variant: the derived value replaces a mapped operating income
DeriveOperatingIncome_Overwrites(dict) ==
    IF "GrossProfit" \in DOMAIN dict /\ "SGA" \in DOMAIN dict
    THEN [std \in DOMAIN dict \cup {"OperatingIncome"} |->
             IF std = "OperatingIncome" THEN dict["GrossProfit"] - dict["SGA"]
             ELSE dict[std]]
    ELSE dict

\* lines 339-340
DeriveOperatingIncome(dict) ==
    IF "OperatingIncome" \notin DOMAIN dict /\ "GrossProfit" \in DOMAIN dict
       /\ "SGA" \in DOMAIN dict
    THEN [std \in DOMAIN dict \cup {"OperatingIncome"} |->
             IF std = "OperatingIncome" THEN dict["GrossProfit"] - dict["SGA"]
             ELSE dict[std]]
    ELSE dict

\* _facts_to_items(df): what the call can do, Raised or Returned(items)
_facts_to_items(df) ==
    IF df = <<>> THEN { Returned(EmptyDict) }
    ELSE UNION { IF e.raised THEN { Raised }
                 ELSE { IF r.raised THEN Raised
                        ELSE Returned(DeriveOperatingIncome(DeriveGrossProfit(r.items))) :
                        r \in RegexPass(df, e.items) } :
                 e \in ExactPass(df) }

\* an exception can leave _facts_to_items (the reindex of line 324)
FactsToItemsRaises(df) == Raised \in _facts_to_items(df)

\* the dicts _facts_to_items(df) can return
FactsToItemsReturns(df) == { o.items : o \in { x \in _facts_to_items(df) : ~x.raised } }

---------------------------------------------------------------------------
(* _build_statement and _fmt_amt: the Statement Builder.                   *)
(*                                                                         *)
(* A table (DataFrame) with the label column is                            *)
(*   [columns |-> the columns besides "label", in order,                   *)
(*    rows    |-> the rows, each [label, cells], cells[column] its cell]   *)
(* A column is <<company, "display">> (the column named after the company) *)
(* or <<company, "raw">> (company + '_raw').  A cell is one of             *)
(*   <<"num", v>>             the number v                                 *)
(*   <<"frac", n, d>>         the float computed for n/d (lowest terms,    *)
(*                            d > 0; the negative zero is 0/-1)            *)
(*   <<"amt", mark, n, unit>> the text mark + n + unit of _fmt_amt         *)
(*   <<"pct", sign, h>>       the text sign + h/100 with two decimals      *)
(*                            and '%', sign "-" or ""                      *)
(*   <<"str", s>>             the text s                                   *)
(*   <<"nan">>                a missing cell (NaN)                         *)

\* round(v / d) to an integer, ties to the even integer, as '.0f' formats
\* the float v/d (exact for the integral amounts of the model)
RoundHalfEven(v, d) ==
    LET a == Abs(v)
        q == a \div d
        r == a % d
        m == IF 2 * r > d THEN q + 1
             ELSE IF 2 * r = d THEN q + (q % 2)
             ELSE q
    IN  IF v < 0 THEN -m ELSE m

\* Python floats are IEEE 754 doubles. A positive double is written
\*   [m |-> its significand, binary digits with the leading 1 first (at
\*          most Precision of them), e |-> the exponent of the last digit]
\* and stands for m * 2^e; the digits are kept in a sequence because the
\* significand exceeds the integers TLC holds. The operators on digit
\* sequences halve their argument where they recurse.
Precision == 53

\* binary digits of a quotient computed beyond the point: Precision + 1 and
\* the leading zeros of a quotient from 2^-64 on
QuotientDigits == 118

Zeros(n) == [i \in 1..n |-> 0]

\* the number of binary digits of the natural number n < 2^31
Width(n) ==
    CHOOSE l \in 0..31 : /\ (l = 31 \/ n < 2^l)
                         /\ (l = 0 \/ n >= 2^(l - 1))

\* the last `width` binary digits of the natural number n, width <= 31
LastBits(n, width) == [i \in 1..width |-> (n \div 2^(width - i)) % 2]

\* the binary digits of the natural number n, the leading 1 first
Bin(n) == LastBits(n, Width(n))

\* the natural number of binary digits, one half of the digits after the
\* other
RECURSIVE Val(_)
Val(bits) ==
    IF bits = <<>> THEN 0
    ELSE IF Len(bits) = 1 THEN bits[1]
    ELSE LET half == Len(bits) \div 2
         IN  Val(SubSeq(bits, 1, half)) * 2^(Len(bits) - half)
             + Val(SubSeq(bits, half + 1, Len(bits)))

\* the digits without their leading zeros
Strip(bits) ==
    IF \A i \in 1..Len(bits) : bits[i] = 0 THEN <<>>
    ELSE SubSeq(bits, CHOOSE i \in 1..Len(bits) :
                          bits[i] = 1 /\ \A j \in 1..(i - 1) : bits[j] = 0,
                Len(bits))

\* bits + 1 where the last 0 of bits is at position last
IncAt(bits, last) ==
    [i \in 1..Len(bits) |-> IF i < last THEN bits[i] ELSE IF i = last THEN 1 ELSE 0]

\* bits + 1
Inc(bits) ==
    IF \A i \in 1..Len(bits) : bits[i] = 1 THEN <<1>> \o Zeros(Len(bits))
    ELSE IncAt(bits, CHOOSE i \in 1..Len(bits) :
                         bits[i] = 0 /\ \A j \in (i + 1)..Len(bits) : bits[j] = 1)

\* digits of a limb of the long multiplication: 2^Limb times a factor up to
\* 100 stays below 2^31
Limb == 24

\* the digits of bits from the end: those before the last `drop`, at most
\* Limb of them
LimbOf(bits, drop) ==
    IF Len(bits) <= drop THEN <<>>
    ELSE SubSeq(bits, IF Len(bits) - drop > Limb THEN Len(bits) - drop - Limb + 1 ELSE 1,
                Len(bits) - drop)

\* bits * k for a factor k <= 100 and at most 3 * Limb digits: the long
\* multiplication limb by limb from the last, each limb taking the carry of
\* the one after it
Times(bits, k) ==
    LET low  == Val(LimbOf(bits, 0)) * k
        mid  == Val(LimbOf(bits, Limb)) * k + low \div 2^Limb
        high == Val(LimbOf(bits, 2 * Limb)) * k + mid \div 2^Limb
    IN  IF Len(bits) <= Limb THEN Bin(low)
        ELSE IF Len(bits) <= 2 * Limb THEN Bin(mid) \o LastBits(low % 2^Limb, Limb)
        ELSE Bin(high) \o LastBits(mid % 2^Limb, Limb) \o LastBits(low % 2^Limb, Limb)

\* rounding to `keep` digits rounds up: the digits after the kept ones are
\* above one half, or one half and the last kept digit is odd
RoundsUp(bits, keep) ==
    /\ bits[keep + 1] = 1
    /\ \/ \E i \in (keep + 2)..Len(bits) : bits[i] = 1
       \/ (keep > 0 /\ bits[keep] = 1)

\* a rounded significand that outgrew `keep` digits loses its last 0
Carried(m, e, keep) ==
    IF keep > 0 /\ Len(m) > keep THEN [m |-> SubSeq(m, 1, keep), e |-> e + 1]
    ELSE [m |-> m, e |-> e]

\* bits * 2^e rounded to `keep` leading digits, the round-half-to-even of
\* IEEE 754: the digits after the kept ones decide, a tie goes to the even
\* significand
RoundBits(bits, e, keep) ==
    IF Len(bits) <= keep THEN [m |-> bits, e |-> e]
    ELSE Carried(IF RoundsUp(bits, keep) THEN Inc(SubSeq(bits, 1, keep))
                 ELSE SubSeq(bits, 1, keep),
                 e + (Len(bits) - keep), keep)

\* the next binary digit of r/s for 0 <= r < s (2r is compared with s
\* without being formed), and the remainder it leaves
DivBit(r, s) == IF r >= s - r THEN 1 ELSE 0

DivRem(r, s) == IF r >= s - r THEN r - (s - r) ELSE r + r

RECURSIVE DivDigits(_, _, _)
\* binary long division: the next n >= 1 digits of r/s, and the remainder
DivDigits(r, s, n) ==
    IF n = 1 THEN << <<DivBit(r, s)>>, DivRem(r, s) >>
    ELSE LET first == DivDigits(r, s, n \div 2)
             rest  == DivDigits(first[2], s, n - n \div 2)
         IN  << first[1] \o rest[1], rest[2] >>

\* the double a / s of two positive integral doubles (correctly rounded),
\* for a quotient from 2^-64 on: the digits of the integer part, those
\* computed beyond the point, and a last digit telling whether a remainder
\* is left, rounded
FloatDiv(a, s) ==
    LET d == DivDigits(a % s, s, QuotientDigits)
    IN  RoundBits(Strip(Bin(a \div s) \o d[1] \o <<IF d[2] = 0 THEN 0 ELSE 1>>),
                  0 - (QuotientDigits + 1), Precision)

\* the double x * k for a small integer k (correctly rounded)
FloatTimes(x, k) == RoundBits(Times(x.m, k), x.e, Precision)

\* the natural number m * 2^e, e >= 0
Shifted(rounded) == Val(rounded.m \o Zeros(rounded.e))

\* bits * 2^e for e < 0, rounded to an integer, ties to the even integer
RoundInt(bits, e) ==
    IF Len(bits) < 0 - e
    THEN Shifted(RoundBits(Zeros(0 - e - Len(bits)) \o bits, e, 0))
    ELSE Shifted(RoundBits(bits, e, Len(bits) + e))

\* the integer nearest to x * k, ties to the even integer: the digits that
\* format(x, '.nf') prints for k = 10^n, which rounds the exact value of the
\* double
FloatRound(x, k) ==
    IF x.e >= 0 THEN Val(Times(x.m, k) \o Zeros(x.e))
    ELSE RoundInt(Times(x.m, k), x.e)

\* f"{v/1_000_000_000_000:.1f}", in tenths: the double v / 10^12 printed
\* with one decimal. (10^12 is written as a product: it exceeds the integers
\* TLC holds, as does every v of this branch.)
TrillionTenths(v) ==
    LET t == FloatRound(FloatDiv(Abs(v), 1000000 * 1000000), 10)
    IN  IF v < 0 THEN -t ELSE t

\* _fmt_amt(v). The number printed keeps its sign next to the mark; "jo"
\* counts tenths.
_fmt_amt(v) ==
    LET mark == IF v < 0 THEN "down" ELSE ""
        a    == Abs(v)
    IN  IF v = 0 THEN <<"amt", "", 0, "won">>
        ELSE IF a \div 1000000 >= 1000000 THEN <<"amt", mark, TrillionTenths(v), "jo">>
        ELSE IF a >= 100000000 THEN <<"amt", mark, RoundHalfEven(v, 100000000), "eok">>
        ELSE IF a >= 10000 THEN <<"amt", mark, RoundHalfEven(v, 10000), "man">>
        ELSE <<"amt", mark, v, "won">>

RECURSIVE GCD(_, _)
GCD(a, b) == IF b = 0 THEN a ELSE GCD(b, a % b)

\* num * k / sales in lowest terms, <<n, d>> with d > 0; the common factors
\* are divided out before the multiplication
Scaled(num, sales, k) ==
    LET g1 == GCD(Abs(num), Abs(sales))
        n1 == (IF sales < 0 THEN -num ELSE num) \div g1
        d1 == Abs(sales) \div g1
        g2 == GCD(k, d1)
    IN  <<n1 * (k \div g2), d1 \div g2>>

\* the float (num/sales)*100, named by the fraction it is computed for; a
\* zero numerator over a negative revenue gives the negative zero
Percent(num, sales) ==
    IF num = 0 /\ sales < 0 THEN <<"frac", 0, -1>>
    ELSE <<"frac", Scaled(num, sales, 100)[1], Scaled(num, sales, 100)[2]>>

\* f"{(num/sales)*100:.2f}%": the double (num/sales)*100 printed with two
\* decimals, in hundredths of a percent; the sign of the double is printed,
\* that of a negative zero and of a negative value that rounds to 0.00 too
PercentText(num, sales) ==
    <<"pct",
      IF (num < 0) # (sales < 0) THEN "-" ELSE "",
      IF num = 0 THEN 0
      ELSE FloatRound(FloatTimes(FloatDiv(Abs(num), Abs(sales)), 100), 100)>>

\* the order of line 381
StatementOrder ==
    << "Sales", "CostOfSales", "GrossProfit", "SGA", "OperatingIncome",
       "NonOpIncome", "NonOpExpense", "NetIncome" >>

\* the ratio rows of lines 390-394: label and numerator item, in order
RatioOrder ==
    << <<"OperatingMargin", "OperatingIncome">>, <<"GrossMargin", "GrossProfit">>,
       <<"NetMargin", "NetIncome">>, <<"CostRatio", "CostOfSales">>,
       <<"SGARatio", "SGA">> >>

StatementRow(label, company, shown, number) ==
    [label |-> label,
     cells |-> [c \in { <<company, "display">>, <<company, "raw">> } |->
                   IF c[2] = "display" THEN shown ELSE number]]

\* faulty variant: a ratio row for every numerator, an absent one counted as zero
_build_statement_ZeroFilled(data, company) ==
    LET present == SelectSeq(StatementOrder, LAMBDA k : k \in DOMAIN data)
        amounts == [i \in 1..Len(present) |->
                       StatementRow(present[i], company, _fmt_amt(data[present[i]]),
                                    <<"num", data[present[i]]>>)]
        sales   == IF "Sales" \in DOMAIN data THEN data["Sales"] ELSE 0
        Get(k)  == IF k \in DOMAIN data THEN data[k] ELSE 0
        ratios  == IF sales # 0
                   THEN [i \in 1..Len(RatioOrder) |->
                            StatementRow(RatioOrder[i][1], company,
                                         PercentText(Get(RatioOrder[i][2]), sales),
                                         Percent(Get(RatioOrder[i][2]), sales))]
                   ELSE <<>>
    IN  [columns |-> << <<company, "display">>, <<company, "raw">> >>,
         rows |-> amounts \o ratios]

\* _build_statement(data, company)
_build_statement(data, company) ==
    LET present == SelectSeq(StatementOrder, LAMBDA k : k \in DOMAIN data)
        amounts == [i \in 1..Len(present) |->
                       StatementRow(present[i], company, _fmt_amt(data[present[i]]),
                                    <<"num", data[present[i]]>>)]
        sales   == IF "Sales" \in DOMAIN data THEN data["Sales"] ELSE 0
        shown   == SelectSeq(RatioOrder, LAMBDA r : r[2] \in DOMAIN data)
        ratios  == IF sales # 0
                   THEN [i \in 1..Len(shown) |->
                            StatementRow(shown[i][1], company,
                                         PercentText(data[shown[i][2]], sales),
                                         Percent(data[shown[i][2]], sales))]
                   ELSE <<>>
        rows    == amounts \o ratios
    IN  IF rows = <<>> THEN [columns |-> <<>>, rows |-> <<>>]
        ELSE [columns |-> << <<company, "display">>, <<company, "raw">> >>,
              rows |-> rows]

---------------------------------------------------------------------------
(* Multi-Company Merger: merge_company_data, lines 406-417.                *)

\* pd.DataFrame(): no column at all, not even the label column
EmptyTable == [columns |-> <<>>, rows |-> <<>>]

\* the labels in the order of the code points of their texts (당기순이익 <
\* 매출액 < 매출원가 < 매출원가율(%) < 매출총이익 < 매출총이익률(%) < 순이익률(%) <
\* 영업외비용 < 영업외수익 < 영업이익 < 영업이익률(%) < 판관비율(%) < 판매비와관리비),
\* the order an outer join sorts its keys in
LabelOrder ==
    << "NetIncome", "Sales", "CostOfSales", "CostRatio", "GrossProfit",
       "GrossMargin", "NetMargin", "NonOpExpense", "NonOpIncome",
       "OperatingIncome", "OperatingMargin", "SGARatio", "SGA" >>

LabelsOf(t) == [i \in 1..Len(t.rows) |-> t.rows[i].label]

\* the row of a table with a label (the labels of a statement are distinct)
RowAt(t, label) == t.rows[CHOOSE i \in 1..Len(t.rows) : t.rows[i].label = label]

\* line 412: the columns of df joined into merged
DisplayColumns(df) == SelectSeq(df.columns, LAMBDA c : c[2] # "raw")

\* line 414 raises: set_index finds no label column (KeyError), or the joined
\* column is already a column of merged (ValueError: columns overlap)
JoinRaises(m, df, c) ==
    \/ m.columns = <<>>
    \/ df.columns = <<>>
    \/ c \in Range(m.columns)

\* the row of the join for one key: the cells of merged, missing where
\* merged has no such row, and the cell of the joined column
JoinRow(m, df, c, l) ==
    [label |-> l,
     cells |-> (IF l \in Range(LabelsOf(m)) THEN RowAt(m, l).cells
                ELSE [col \in Range(m.columns) |-> <<"nan">>])
               @@ (c :> IF l \in Range(LabelsOf(df)) THEN RowAt(df, l).cells[c]
                        ELSE <<"nan">>)]

RECURSIVE JoinRows(_, _, _, _)
JoinRows(m, df, c, keys) ==
    IF keys = <<>> THEN <<>>
    ELSE <<JoinRow(m, df, c, Head(keys))>> \o JoinRows(m, df, c, Tail(keys))

\* The repository pins no pandas version, and the versions differ in the
\* order of the keys of an outer join: from pandas 2.2 on the keys are always
\* sorted ("sorted"); before, they keep the order of the left table when
\* both tables list the same labels in the same order ("left_when_equal").
PandasBehaviours == { "sorted", "left_when_equal" }

\* line 414: merged.set_index(label).join(df.set_index(label)[c],
\* how='outer').reset_index() under the installed pandas. The keys are the
\* union of the labels, sorted or, where the installation does so, in the
\* order of the left table.
Join(m, df, c, lib) ==
    LET left  == LabelsOf(m)
        right == LabelsOf(df)
        keys  == IF lib = "left_when_equal" /\ (left = right \/ right = <<>>)
                 THEN left
                 ELSE SelectSeq(LabelOrder,
                                LAMBDA l : l \in Range(left) \cup Range(right))
    IN  [columns |-> Append(m.columns, c), rows |-> JoinRows(m, df, c, keys)]

\* lines 413-416 for one df: the joins done before one raises are kept
RECURSIVE JoinColumns(_, _, _, _)
JoinColumns(m, df, cols, lib) ==
    IF cols = <<>> THEN [table |-> m, warned |-> FALSE]
    ELSE IF JoinRaises(m, df, Head(cols)) THEN [table |-> m, warned |-> TRUE]
    ELSE JoinColumns(Join(m, df, Head(cols), lib), df, Tail(cols), lib)

\* lines 410-416: the loop; warned lists the positions of the tables whose
\* join raised
RECURSIVE MergeLoop(_, _, _, _, _)
MergeLoop(m, dfs, k, warned, lib) ==
    IF k > Len(dfs) THEN [table |-> m, warned |-> warned]
    ELSE LET r == JoinColumns(m, dfs[k], DisplayColumns(dfs[k]), lib)
         IN  MergeLoop(r.table, dfs, k + 1,
                       IF r.warned THEN Append(warned, k) ELSE warned, lib)

\* faulty variant: the missing cells are left missing
FillNa_Omitted(t) == t

RECURSIVE FillNaRows(_)
FillNaRows(rows) ==
    IF rows = <<>> THEN <<>>
    ELSE << [label |-> Head(rows).label,
             cells |-> [col \in DOMAIN Head(rows).cells |->
                           IF Head(rows).cells[col] = <<"nan">>
                           THEN <<"str", "-">>
                           ELSE Head(rows).cells[col]]] >>
         \o FillNaRows(Tail(rows))

\* line 417: merged.fillna("-")
FillNa(t) == [columns |-> t.columns, rows |-> FillNaRows(t.rows)]

\* merge_company_data(dataframes) under the installed pandas: the table
\* returned and the positions of the tables a warning was shown for
merge_company_data(dfs, lib) ==
    IF dfs = <<>> THEN [table |-> EmptyTable, warned |-> <<>>]
    ELSE IF Len(dfs) = 1 THEN [table |-> dfs[1], warned |-> <<>>]
    ELSE LET r == MergeLoop(dfs[1], dfs, 2, <<>>, lib)
         IN  [table |-> FillNa(r.table), warned |-> r.warned]

---------------------------------------------------------------------------
(* The fallback slice: _slice_to_quarter_fallback, lines 278-296.          *)

\* the positions after a match of a + '.?' + b at position i of chars
GapEnds(chars, a, b, i) ==
    IF ~MatchAt(chars, a, i) THEN {}
    ELSE { j + Len(b) : j \in { k \in {i + Len(a), i + Len(a) + 1} :
                                   MatchAt(chars, b, k) } }

\* re.search('(a.?b|0a.?b).*(c.?d|0c.?d)', chars), each of p, q a pair of
\* alternatives <<a, b>>
WindowPattern(chars, p, q) ==
    \E i \in 1..Len(chars) : \E x \in Range(p) :
        \E e \in GapEnds(chars, x[1], x[2], i) :
            \E j \in e..Len(chars) : \E y \in Range(q) :
                GapEnds(chars, y[1], y[2], j) # {}

\* the pattern of a report type (lines 284-291) searched in a context id
FallbackPattern(report_type, chars) ==
    CASE report_type = "Q3" ->
           WindowPattern(chars, << <<<<"7">>, <<"0", "1">>>>, <<<<"0", "7">>, <<"0", "1">>>> >>,
                                << <<<<"9">>, <<"3", "0">>>>, <<<<"0", "9">>, <<"3", "0">>>> >>)
      [] report_type = "Q2" ->
           WindowPattern(chars, << <<<<"4">>, <<"0", "1">>>>, <<<<"0", "4">>, <<"0", "1">>>> >>,
                                << <<<<"6">>, <<"3", "0">>>>, <<<<"0", "6">>, <<"3", "0">>>> >>)
      [] report_type = "Q1" ->
           WindowPattern(chars, << <<<<"1">>, <<"0", "1">>>>, <<<<"0", "1">>, <<"0", "1">>>> >>,
                                << <<<<"3">>, <<"3", "1">>>>, <<<<"0", "3">>, <<"3", "1">>>> >>)
      [] OTHER ->
           WindowPattern(chars, << <<<<"1", "0">>, <<"0", "1">>>> >>,
                                << <<<<"1", "2">>, <<"3", "1">>>> >>)

\* faulty variant: the rows are not narrowed to the duration facts
_slice_to_quarter_fallback_AnyPeriod(df, report_type) ==
    SelectSeq(df, LAMBDA r : FallbackPattern(report_type, Spell[r.context_id]))

\* _slice_to_quarter_fallback(facts, report_type)
_slice_to_quarter_fallback(df, report_type) ==
    SelectSeq(SelectSeq(df, IsDuration),
              LAMBDA r : FallbackPattern(report_type, Spell[r.context_id]))

---------------------------------------------------------------------------
(* Backup Scanner: _backup_scan, lines 346-376.                            *)
(*                                                                         *)
(* The numeric leaves of the documents of the model are their fact         *)
(* elements, children of the root element xbrl: in the other leaves that   *)
(* hold a digit (dates, measures) the text is not a number or lies below   *)
(* the cut of line 356. A leaf nested in another element carries parent,   *)
(* the name of that element.                                               *)

Space == <<" ">>

\* lines 359-364: tag name, attribute values and parent name, lower-cased
\* and joined by spaces
InfoOf(el) ==
    Lower(Spell[el.name]) \o Space \o Lower(Spell[el.contextRef])
    \o (IF el.unitRef = None THEN <<>> ELSE Space \o Lower(Spell[el.unitRef]))
    \o Space \o (IF "parent" \in DOMAIN el THEN Lower(Spell[el.parent])
                  ELSE Spell["xbrl"])

\* the words of the patterns
W_revenue == <<"r", "e", "v", "e", "n", "u", "e">>
W_sales == <<"s", "a", "l", "e", "s">>
W_cost == <<"c", "o", "s", "t">>
W_goods == <<"g", "o", "o", "d", "s">>
W_gross == <<"g", "r", "o", "s", "s">>
W_profit == <<"p", "r", "o", "f", "i", "t">>
W_operating == <<"o", "p", "e", "r", "a", "t", "i", "n", "g">>
W_income == <<"i", "n", "c", "o", "m", "e">>
\* 매출원가
H_COSTOFSALES == <<"U+B9E4", "U+CD9C", "U+C6D0", "U+AC00">>
\* 원가
H_COST == <<"U+C6D0", "U+AC00">>
\* 매출총이익
H_GROSSPROFIT == <<"U+B9E4", "U+CD9C", "U+CD1D", "U+C774", "U+C775">>
\* 판관비
H_SGA == <<"U+D310", "U+AD00", "U+BE44">>
\* 판매비
H_SELLING == <<"U+D310", "U+B9E4", "U+BE44">>
\* 관리비
H_ADMIN == <<"U+AD00", "U+B9AC", "U+BE44">>
\* 영업이익
H_OPINCOME == <<"U+C601", "U+C5C5", "U+C774", "U+C775">>
\* 당기순이익
H_NETINCOME == <<"U+B2F9", "U+AE30", "U+C21C", "U+C774", "U+C775">>

\* chars[from..] holds no t
NoLater(chars, t, from) == ~\E j \in from..Len(chars) : MatchAt(chars, t, j)

\* the items of lines 365-372, in dict order
BackupItems ==
    << "Sales", "CostOfSales", "GrossProfit", "SGA", "OperatingIncome", "NetIncome" >>

\* re.search(rx, info, re.IGNORECASE) for the rx of an item
BackupRegex(std, chars) ==
    CASE std = "Sales" ->
           \E i \in 1..Len(chars) :
              \/ MatchAt(chars, W_revenue, i) /\ NoLater(chars, W_cost, i + 7)
              \/ MatchAt(chars, W_sales, i) /\ NoLater(chars, W_cost, i + 5)
      [] std = "CostOfSales" ->
           \/ ContainsThen(chars, W_cost, W_sales)
           \/ ContainsThen(chars, W_cost, W_goods)
           \/ Contains(chars, H_COSTOFSALES)
           \/ Contains(chars, H_COST)
      [] std = "GrossProfit" ->
           \/ ContainsThen(chars, W_gross, W_profit)
           \/ Contains(chars, H_GROSSPROFIT)
      [] std = "SGA" ->
           \/ ContainsThen(chars, Spell["selling"], Spell["administrative"])
           \/ Contains(chars, H_SGA)
           \/ ContainsThen(chars, H_SELLING, H_ADMIN)
      [] std = "OperatingIncome" ->
           \/ ContainsThen(chars, W_operating, W_income)
           \/ ContainsThen(chars, W_operating, W_profit)
           \/ Contains(chars, H_OPINCOME)
      [] std = "NetIncome" ->
           \/ EndsWith(chars, Spell["profitloss"])
           \/ EndsWith(chars, Spell["netincome"])
           \/ EndsWith(chars, Spell["netprofit"])
           \/ Contains(chars, H_NETINCOME)

\* faulty variant: on equal magnitude the later leaf wins
ScanLeaf_LaterWins(dict, el) ==
    LET hits == { std \in Range(BackupItems) : BackupRegex(std, InfoOf(el)) }
    IN  [k \in DOMAIN dict \cup hits |->
            IF k \in hits /\ (k \notin DOMAIN dict \/ Abs(el.value) >= Abs(dict[k]))
            THEN el.value ELSE dict[k]]

\* lines 365-375 for one leaf: every item whose pattern matches takes the
\* number when it has none yet or a smaller magnitude
ScanLeaf(dict, el) ==
    LET hits == { std \in Range(BackupItems) : BackupRegex(std, InfoOf(el)) }
    IN  [k \in DOMAIN dict \cup hits |->
            IF k \in hits /\ (k \notin DOMAIN dict \/ Abs(el.value) > Abs(dict[k]))
            THEN el.value ELSE dict[k]]

RECURSIVE ScanLeaves(_, _)
ScanLeaves(dict, leaves) ==
    IF leaves = <<>> THEN dict
    ELSE ScanLeaves(IF Abs(Head(leaves).value) < 10000 THEN dict
                    ELSE ScanLeaf(dict, Head(leaves)),
                    Tail(leaves))

\* _backup_scan(soup)
_backup_scan(soup) == ScanLeaves(EmptyDict, soup.elements)

---------------------------------------------------------------------------
(* load_file, lines 64-113, and the helpers it calls first.                *)
(*                                                                         *)
(* An uploaded file is a record [name, size, soup]: size is left out when  *)
(* the object has no size attribute; soup, the parsed document, is left    *)
(* out when the content is empty (every non-empty content decodes: the     *)
(* iso-8859-1 step of _fast_decode accepts any bytes). A soup may carry    *)
(* registrant, the stripped text of the first company-name tag.            *)
(* Company names: SK에너지 "SKEnergy", GS칼텍스 "GSCaltex", HD현대오일뱅크      *)
(* "HDHyundaiOilbank".                                                     *)

\* 50*1024*1024 (line 67)
MaxUploadBytes == 52428800

\* s.split(sep)[0] for a one-character sep
BeforeFirst(chars, sep) ==
    LET hits == { i \in 1..Len(chars) : chars[i] = sep }
    IN  IF hits = {} THEN chars
        ELSE SubSeq(chars, 1, (CHOOSE i \in hits : \A j \in hits : i <= j) - 1)

\* the mapping of lines 143-148, in dict order
CompanyKeys ==
    << <<<<"s", "k">>, "SKEnergy">>,
       <<<<"s", "k", "e", "n", "e", "r", "g", "y">>, "SKEnergy">>,
       <<<<"g", "s">>, "GSCaltex">>,
       <<<<"g", "s", "c", "a", "l", "t", "e", "x">>, "GSCaltex">>,
       <<<<"h", "d">>, "HDHyundaiOilbank">>,
       <<<<"h", "y", "u", "n", "d", "a", "i">>, "HDHyundaiOilbank">>,
       <<<<"h", "d", "o", "i", "l">>, "HDHyundaiOilbank">>,
       <<<<"s", "-", "o", "i", "l">>, "S-Oil">>,
       <<<<"s", "o", "i", "l">>, "S-Oil">>,
       <<<<"s", "o", "i", "l", "c", "o", "r", "p">>, "S-Oil">> >>

\* the Hangul syllables (U+AC00..U+D7A3) the spellings of this module use
HangulChars ==
    { "U+ACB0", "U+B3C4", "U+BCC4", "U+C5F0", "U+C6D0", "U+B9E4", "U+CD9C",
      "U+AC00", "U+CD1D", "U+C774", "U+C775", "U+D310", "U+AD00", "U+BE44",
      "U+B9AC", "U+C601", "U+C5C5", "U+B2F9", "U+AE30", "U+C21C" }

\* the characters re.sub(r'[^A-Za-z<U+AC00>-<U+D7A3>0-9\s]', '', name) keeps,
\* among those of the vocabulary: letters of both cases, Hangul syllables,
\* digits and white space
NameChars ==
    { "a", "b", "c", "d", "e", "f", "g", "h", "i", "j", "k", "l", "m", "n",
      "o", "p", "q", "r", "s", "t", "u", "v", "w", "x", "y", "z",
      "A", "B", "C", "D", "E", "F", "G", "H", "I", "J", "K", "L", "M", "N",
      "O", "P", "Q", "R", "S", "T", "U", "V", "W", "X", "Y", "Z",
      "0", "1", "2", "3", "4", "5", "6", "7", "8", "9", " " }
    \cup HangulChars

\* lines 142-152: the name from the file name
CompanyFromFilename(filename) ==
    LET name  == Lower(BeforeFirst(Spell[filename], "."))
        found == SelectSeq(CompanyKeys, LAMBDA kv : Contains(name, kv[1]))
        clean == SelectSeq(name, LAMBDA c : c \in NameChars)
    IN  IF found # <<>> THEN found[1][2]
        ELSE IF clean = <<>> THEN "Unknown Company"
        ELSE Unspell(clean)

\* _extract_company_name(soup, filename)
_extract_company_name(soup, filename) ==
    IF "registrant" \in DOMAIN soup THEN soup.registrant
    ELSE CompanyFromFilename(filename)

\* what a call of load_file did: the steps it ran, the messages it showed,
\* the items it built the statement from and what it returned (<<>> for
\* None, <<df>> for a table)
Outcome(calls, shown, dict, result) ==
    [calls |-> calls, messages |-> shown, items |-> dict, result |-> result]

\* faulty variant: the statement is built from an empty dict as well
LoadBuild_Unchecked(company, dict, calls, shown) ==
    Outcome(Append(calls, "_build_statement"), shown, dict,
            << _build_statement(dict, company) >>)

\* lines 104-109: the statement is built from a non-empty dict
LoadBuild(company, dict, calls, shown) ==
    IF DOMAIN dict = {}
    THEN Outcome(calls, Append(shown, <<"error", "no_items">>), dict, <<>>)
    ELSE Outcome(Append(calls, "_build_statement"), shown, dict,
                 << _build_statement(dict, company) >>)

\* faulty variant: the backup scanner always runs and its values come first
LoadItems_AlwaysScans(soup, company, mapped, calls, shown) ==
    LoadBuild(company, _backup_scan(soup) @@ mapped,
              Append(calls, "_backup_scan"), shown)

\* lines 100-102: the backup scanner runs when nothing was mapped
LoadItems(soup, company, mapped, calls, shown) ==
    LoadBuild(company,
              IF DOMAIN mapped = {} THEN _backup_scan(soup) ELSE mapped,
              IF DOMAIN mapped = {} THEN Append(calls, "_backup_scan") ELSE calls,
              IF DOMAIN mapped = {} THEN Append(shown, <<"info", "mapping_failed">>)
              ELSE shown)

\* line 99, and lines 110-112 when it raises: what load_file can do, one
\* outcome for each thing the mapper can do
LoadMap(soup, company, slice, calls, shown) ==
    { IF o.raised
      THEN Outcome(Append(calls, "_facts_to_items"),
                   Append(shown, <<"error", "exception">>), EmptyDict, <<>>)
      ELSE LoadItems(soup, company, o.items,
                     Append(calls, "_facts_to_items"), shown) :
      o \in _facts_to_items(slice) }

\* lines 95-97: the fallback slice replaces an empty slice
LoadSlice(soup, company, fcts, r, first, calls) ==
    LoadMap(soup, company,
            IF first = <<>> THEN _slice_to_quarter_fallback(fcts, r) ELSE first,
            IF first = <<>> THEN Append(calls, "_slice_to_quarter_fallback") ELSE calls,
            IF first = <<>> THEN << <<"warning", "qtd_not_found">> >> ELSE <<>>)

\* lines 86-94: report type and slice
LoadReport(soup, company, fcts, r, calls) ==
    LoadSlice(soup, company, fcts, r, _slice_to_quarter(fcts, r),
              calls \o <<"_guess_report_type_by_month", "_slice_to_quarter">>)

\* lines 80-83: the fact table must not be empty
LoadFacts(soup, company, fcts, calls) ==
    IF fcts = <<>>
    THEN { Outcome(calls, << <<"error", "no_facts">> >>, EmptyDict, <<>>) }
    ELSE LoadReport(soup, company, fcts, _guess_report_type_by_month(fcts), calls)

\* lines 77-80: company name and facts
LoadSoup(soup, company) ==
    LoadFacts(soup, company, _xbrl_to_facts(soup, company),
              <<"seek", "read", "_fast_decode", "_safe_parse",
                "_extract_company_name", "_xbrl_to_facts">>)

\* lines 70-108: the file is read and processed
LoadContent(f) ==
    IF "soup" \notin DOMAIN f
    THEN { Outcome(<<"seek", "read", "_fast_decode">>,
                   << <<"error", "encoding">> >>, EmptyDict, <<>>) }
    ELSE LoadSoup(f.soup, _extract_company_name(f.soup, f.name))

\* faulty variant: no size ceiling
load_file_Unlimited(f) == LoadContent(f)

\* load_file(uploaded_file): the outcomes the call can have (more than one
\* where the sort of the mapper meets values of equal magnitude)
load_file(f) ==
    IF (IF "size" \in DOMAIN f THEN f.size ELSE 0) > MaxUploadBytes
    THEN { Outcome(<<>>, << <<"error", "too_large">> >>, EmptyDict, <<>>) }
    ELSE LoadContent(f)

---------------------------------------------------------------------------
(* Each specification below runs one part of the program; the variables of *)
(* the other parts keep these values.                                      *)

IdleExtract == parsed = None /\ txt = <<>> /\ val = <<>>
\* st.session_state after initialize_session_state: every key holds None
\* (<<>>)
NoSession ==
    [manual_financial_data |-> <<>>, financial_data |-> <<>>,
     financial_insight |-> <<>>]

IdleSlice == /\ rpt = None /\ facts = <<>> /\ f_krw = <<>> /\ f_cfs = <<>>
             /\ sliced = <<>>
IdleMap   == items = EmptyDict /\ raised = FALSE
IdleStmt  == stmt = None
IdleMerge == dataframes = <<>> /\ merged = None
\* the runs that join no tables are shown under one installation
IdlePandas == pandas = "sorted"
IdleApp   == /\ uploaded_files = <<>> /\ cursor = 0 /\ run = None
             /\ session = NoSession /\ messages = <<>>

OtherIdle(parts) ==
    /\ ("extract" \in Range(parts)) => IdleExtract
    /\ ("slice" \in Range(parts)) => IdleSlice
    /\ ("map"   \in Range(parts)) => IdleMap
    /\ ("stmt"  \in Range(parts)) => IdleStmt
    /\ ("merge" \in Range(parts)) => IdleMerge
    /\ ("pandas" \in Range(parts)) => IdlePandas
    /\ ("app"   \in Range(parts)) => IdleApp

---------------------------------------------------------------------------
(* Inputs of the slicing runs: documents over a fixed list of declared     *)
(* contexts (fiscal year 2024 windows, one window of 2023, one instant).   *)

MaxFacts == 3

Ctx(id, ptype, s, e, cons) ==
    [context_id |-> id, period_type |-> ptype, start |-> s, end |-> e,
     is_consolidated |-> cons]

\* duration contexts of unknown scope, one per window
WindowContexts ==
    << Ctx("D_0101_0331", "duration", 20240101, 20240331, None),
       Ctx("D_0401_0630", "duration", 20240401, 20240630, None),
       Ctx("D_0701_0930", "duration", 20240701, 20240930, None),
       Ctx("D_1001_1231", "duration", 20241001, 20241231, None),
       Ctx("D_0101_0630", "duration", 20240101, 20240630, None),
       Ctx("D_0101_0930", "duration", 20240101, 20240930, None),
       Ctx("D_0101_1231", "duration", 20240101, 20241231, None),
       Ctx("P_0701_0930", "duration", 20230701, 20230930, None),
       Ctx("I_0930",      "instant",  NaT,      20240930, None) >>

\* the Q3 contexts with a definite scope
ScopeContexts ==
    << Ctx("D_0701_0930_CFS", "duration", 20240701, 20240930, "True"),
       Ctx("D_0701_0930_SEP", "duration", 20240701, 20240930, "False"),
       Ctx("D_0101_0930_CFS", "duration", 20240101, 20240930, "True"),
       Ctx("D_0101_0930_SEP", "duration", 20240101, 20240930, "False"),
       Ctx("I_0930_CFS",      "instant",  NaT,      20240930, "True"),
       Ctx("I_0930_SEP",      "instant",  NaT,      20240930, "False") >>

DeclaredContexts == WindowContexts \o ScopeContexts

DeclaredUnits == [u \in {"KRW", "USD"} |->
                     IF u = "KRW" THEN "iso4217:KRW" ELSE "iso4217:USD"]

Element(n, v, u, c) == [name |-> n, value |-> v, unitRef |-> u, contextRef |-> c]

\* facts that differ in unit and scope, all of the Q3 windows
ScopeElements ==
    { Element("operatingincome", 300, u, c) :
        u \in {"KRW", "USD", None},
        c \in { "D_0701_0930", "D_0701_0930_CFS", "D_0701_0930_SEP",
                "D_0101_0930_CFS", "I_0930_CFS" } }

\* facts in KRW of unknown scope that differ in window, concept and value
WindowElements ==
    { Element("operatingincome", v, "KRW", c) :
        v \in { 300, 200 },
        c \in { WindowContexts[i].context_id : i \in 1..Len(WindowContexts) } }
    \cup { Element("ifrs-full:Revenue", 300, "KRW", c) :
             c \in { "D_0701_0930", "D_0101_0630", "D_0101_0930" } }

SeqsUpTo(S, n) == UNION { [1..k -> S] : k \in 0..n }

SliceSoups ==
    { [contexts |-> DeclaredContexts, units |-> DeclaredUnits, elements |-> els] :
        els \in SeqsUpTo(ScopeElements, MaxFacts) \cup SeqsUpTo(WindowElements, MaxFacts) }

---------------------------------------------------------------------------
(* The slicing run: lines 80-94 of load_file on one document.              *)

\* lines 80-86: the facts of a document; a document without facts ends
\* load_file at lines 81-83 and is never sliced
InitSlice ==
    /\ pc = "facts"
    /\ \E soup \in SliceSoups : facts = _xbrl_to_facts(soup, "A")
    /\ facts # <<>>
    /\ rpt = _guess_report_type_by_month(facts)
    /\ f_krw = <<>>
    /\ f_cfs = <<>>
    /\ sliced = <<>>
    /\ OtherIdle(<<"extract", "map", "stmt", "merge", "pandas", "app">>)

\* sliced = self._slice_to_quarter(facts, rpt)
SliceToQuarter ==
    /\ pc = "facts"
    /\ pc' = "sliced"
    /\ f_krw' = CurrencyFilter(facts)
    /\ f_cfs' = ConsolidatedFilter(f_krw')
    /\ sliced' = SelectQuarter(f_cfs', rpt)
    /\ UNCHANGED <<extractVars, facts, rpt, mapVars, stmt, mergeVars, appVars>>

NextSlice == SliceToQuarter

SpecSlice == InitSlice /\ [][NextSlice]_vars

---------------------------------------------------------------------------
(* Claims about the Period Selector, checked under SpecSlice.              *)

NoUnitIsKRW(f) == \A i \in 1..Len(f) : ~UnitIsKRW[f[i].unit]

\* C2 (as claimed): when no fact's unit matches the local-currency pattern,
\* the currency filter is skipped and every fact is kept for the next steps.
C2_CurrencyFilterSkipped ==
    (pc = "sliced" /\ NoUnitIsKRW(facts)) => f_krw = facts

\* C2: what the code does in that case: no fact is kept.
C2_CurrencyFilterEmpties ==
    (pc = "sliced" /\ NoUnitIsKRW(facts)) => f_krw = <<>>

C2_Witness ==
    /\ pc = "sliced"
    /\ facts # <<>>
    /\ \A i \in 1..Len(facts) : facts[i].unit = None
    /\ f_krw = <<>>

HasConsolidated(f) == \E i \in 1..Len(f) : f[i].is_consolidated = "True"

\* C3: if a fact left by the currency step is consolidated-true, the facts
\* passed on to period selection are exactly the consolidated-true ones;
\* if none is, the facts are passed on unchanged.
C3_ConsolidatedPreferred ==
    pc = "sliced" =>
        IF HasConsolidated(f_krw)
        THEN /\ \A i \in 1..Len(f_cfs) : f_cfs[i].is_consolidated = "True"
             /\ \A i \in 1..Len(f_krw) :
                    f_krw[i].is_consolidated = "True" => f_krw[i] \in Range(f_cfs)
             /\ Range(f_cfs) \subseteq Range(f_krw)
        ELSE f_cfs = f_krw

C3_Witness ==
    /\ pc = "sliced"
    /\ HasConsolidated(f_krw)
    /\ \E i \in 1..Len(f_krw) : f_krw[i].is_consolidated = "False"
    /\ \E i \in 1..Len(f_krw) : f_krw[i].is_consolidated = None
    /\ Len(f_cfs) < Len(f_krw)

\* the facts of a window of the target fiscal year among the duration facts
\* handed to window selection
TargetYear == YearOf(EndMax(SelectSeq(f_cfs, IsDuration)))

InWindow(start_m, end_m) ==
    SelectSeq(f_cfs, LAMBDA r : /\ IsDuration(r)
                                /\ r.start # NaT /\ r.end # NaT
                                /\ MonthOf(r.start) = start_m
                                /\ MonthOf(r.end) = end_m
                                /\ YearOf(r.end) = TargetYear)

DirectWindow ==
    CASE rpt = "Q1" -> InWindow(1, 3) [] rpt = "Q2" -> InWindow(4, 6)
      [] rpt = "Q3" -> InWindow(7, 9) [] OTHER -> InWindow(10, 12)

YtdWindow ==
    CASE rpt = "Q1" -> InWindow(1, 3) [] rpt = "Q2" -> InWindow(1, 6)
      [] rpt = "Q3" -> InWindow(1, 9) [] OTHER -> InWindow(1, 12)

PriorWindow ==
    CASE rpt = "Q1" -> <<>> [] rpt = "Q2" -> InWindow(1, 3)
      [] rpt = "Q3" -> InWindow(1, 6) [] OTHER -> InWindow(1, 9)

\* a row made by _diff (it carries no period_type column)
IsSynthesized(r) == "period_type" \notin DOMAIN r

Synthesizes == rpt # "Q1" /\ DirectWindow = <<>> /\ YtdWindow # <<>> /\ PriorWindow # <<>>

\* C4: the result is the directly tagged window of the report type whenever
\* that window holds a fact (for Q1 always); synthesized rows, one or more per
\* YTD row, are produced only when the direct window is empty and the YTD and
\* the prior cumulative windows are both non-empty; otherwise it is empty.
C4_WindowChoice ==
    pc = "sliced" =>
        IF Synthesizes
        THEN /\ Len(sliced) >= Len(YtdWindow)
             /\ \A i \in 1..Len(sliced) : IsSynthesized(sliced[i])
        ELSE sliced = DirectWindow

C4_Witness ==
    /\ pc = "sliced"
    /\ rpt = "Q2"
    /\ Synthesizes
    /\ sliced # <<>>
    /\ IsSynthesized(sliced[1])

\* the value and concept of the rows of a table
ConceptValues(df) == { <<df[i].concept_local, df[i].value>> : i \in 1..Len(df) }

\* what P5 asks of the synthesis of ytd and prev
ExpectedQtd(ytd, prev) ==
    UNION { LET y    == ytd[i]
                same == { j \in 1..Len(prev) : prev[j].concept_local = y.concept_local }
            IN  IF same = {} THEN { <<y.concept_local, y.value>> }
                ELSE { <<y.concept_local, y.value - prev[j].value>> : j \in same } :
            i \in 1..Len(ytd) }

\* C5: when QTD is synthesized, every YTD fact yields V_ytd - V_prev for each
\* prior-window fact of its concept_local, and V_ytd unchanged when the prior
\* window has none; the synthesized table holds no other value.
C5_QtdSynthesis ==
    (pc = "sliced" /\ Synthesizes) =>
        ConceptValues(sliced) = ExpectedQtd(YtdWindow, PriorWindow)

\* Scenario B: YTD operatingincome 300, Jan-Jun 200, Q3: QTD 100, next to a
\* concept with no prior fact that passes through
C5_Witness ==
    /\ pc = "sliced"
    /\ rpt = "Q3"
    /\ Synthesizes
    /\ <<"operatingincome", 100>> \in ConceptValues(sliced)
    /\ <<"revenue", 300>> \in ConceptValues(sliced)

\* the row carries the metadata of the YTD row y and the suffixed context id
CarriesYtd(r, y) ==
    /\ r.concept_local = y.concept_local
    /\ r.concept_qname = y.concept_qname
    /\ r.unit = y.unit
    /\ r.start = y.start
    /\ r.end = y.end
    /\ r.context_id = <<y.context_id, "_QTD">>

OneRowPerYtdRow ==
    /\ Len(sliced) = Len(YtdWindow)
    /\ \A i \in 1..Len(sliced) : CarriesYtd(sliced[i], YtdWindow[i])

PriorConceptsDistinct ==
    \A i, j \in 1..Len(PriorWindow) :
        PriorWindow[i].concept_local = PriorWindow[j].concept_local => i = j

\* C27 (as claimed): the synthesized table has exactly one row per YTD row,
\* in order, with the YTD row's concept, qname, unit, start and end and its
\* context id suffixed with _QTD, also when the prior window holds several
\* facts of the same concept_local.
C27_OneRowPerYtdRow ==
    (pc = "sliced" /\ Synthesizes) => OneRowPerYtdRow

\* C27: what holds of the code: one row per YTD row when no two facts of the
\* prior window share a concept_local; in every case each synthesized row
\* carries the metadata of a YTD row.
C27_OneRowPerYtdRowWhenPriorDistinct ==
    (pc = "sliced" /\ Synthesizes) =>
        /\ PriorConceptsDistinct => OneRowPerYtdRow
        /\ \A i \in 1..Len(sliced) :
               \E k \in 1..Len(YtdWindow) : CarriesYtd(sliced[i], YtdWindow[k])

\* one YTD fact of 300 and two Jan-Jun facts of the same concept, 300 and
\* 200: two synthesized rows, 0 and 100
C27_Witness ==
    /\ pc = "sliced"
    /\ rpt = "Q3"
    /\ Synthesizes
    /\ Len(YtdWindow) = 1
    /\ Len(PriorWindow) = 2
    /\ ~PriorConceptsDistinct
    /\ Len(sliced) = 2
    /\ sliced[1].value = 0 /\ sliced[2].value = 100

HasDuration(f) == \E i \in 1..Len(f) : IsDuration(f[i])

\* C29 (as claimed): if the facts left by the currency step hold a duration
\* fact, so do the facts handed to window selection, also when the only
\* consolidated-true facts are instants and the duration facts have an
\* unknown scope.
C29_DurationFactsSurvive ==
    pc = "sliced" => (HasDuration(f_krw) => HasDuration(f_cfs))

\* C29: what holds of the code: a duration fact is handed on when one of
\* the consolidated-true facts is a duration fact or when no fact is
\* consolidated-true; when every consolidated-true fact is an instant, no
\* duration fact is handed on and the slice is empty.
C29_DurationFactsSurviveWithConsolidatedDuration ==
    pc = "sliced" =>
        /\ ( /\ HasDuration(f_krw)
             /\ \/ ~HasConsolidated(f_krw)
                \/ \E i \in 1..Len(f_krw) :
                      f_krw[i].is_consolidated = "True" /\ IsDuration(f_krw[i]) )
           => HasDuration(f_cfs)
        /\ ( /\ HasConsolidated(f_krw)
             /\ \A i \in 1..Len(f_krw) :
                    f_krw[i].is_consolidated = "True" => ~IsDuration(f_krw[i]) )
           => (~HasDuration(f_cfs) /\ sliced = <<>>)

\* a KRW Jul-Sep duration fact of unknown scope next to a consolidated
\* instant: only the instant is handed on and the slice is empty
C29_Witness ==
    /\ pc = "sliced"
    /\ Len(f_krw) = 2
    /\ \E i \in 1..2 : /\ IsDuration(f_krw[i]) /\ f_krw[i].is_consolidated = None
                        /\ f_krw[i].start = 20240701 /\ f_krw[i].end = 20240930
    /\ \E i \in 1..2 : ~IsDuration(f_krw[i]) /\ f_krw[i].is_consolidated = "True"
    /\ Len(f_cfs) = 1
    /\ ~HasDuration(f_cfs)
    /\ sliced = <<>>

---------------------------------------------------------------------------
(* The mapping run: lines 94-99 of load_file on documents whose facts all  *)
(* lie in one consolidated KRW Jul1-Sep30 context.                         *)

\* tag name and value of the facts: every item has a fact that maps to it,
\* Sales through two aliases and through the regex alone, with magnitudes
\* that tie and that differ
MapFacts ==
    { <<"ifrs-full:Revenue", 1000>>, <<"ifrs-full:Revenue", 600>>,
      <<"sales", -1000>>, <<"sales", 600>>,
      <<"dart:NetSales", 1000>>,
      <<"costofsales", 600>>, <<"costofsales", -1000>>,
      <<"ifrs-full:GrossProfit", 600>>, <<"ifrs-full:GrossProfit", -1000>>,
      <<"sga", 600>>,
      <<"operatingincome", 1000>>,
      <<"ifrs-full:ProfitLoss", -1000>>, <<"ifrs-full:ProfitLoss", 1000>>,
      <<"otherincome", 600>>, <<"interestexpense", -1000>>,
      <<"ifrs-full:Assets", 1000>> }

MapElements ==
    { Element(nv[1], nv[2], "KRW", "D_0701_0930_CFS") : nv \in MapFacts }

MapSoups ==
    { [contexts |-> DeclaredContexts, units |-> DeclaredUnits, elements |-> els] :
        els \in SeqsUpTo(MapElements, MaxFacts) }

\* lines 80-97: the facts of a document with facts, its report type and its
\* slice, the fallback slice where the primary slice is empty
InitMap ==
    /\ pc = "sliced"
    /\ \E soup \in MapSoups : facts = _xbrl_to_facts(soup, "A")
    /\ facts # <<>>
    /\ rpt = _guess_report_type_by_month(facts)
    /\ f_krw = CurrencyFilter(facts)
    /\ f_cfs = ConsolidatedFilter(f_krw)
    /\ sliced = IF SelectQuarter(f_cfs, rpt) = <<>>
                THEN _slice_to_quarter_fallback(facts, rpt)
                ELSE SelectQuarter(f_cfs, rpt)
    /\ OtherIdle(<<"extract", "map", "stmt", "merge", "pandas">>)
    /\ uploaded_files = <<>> /\ cursor = 0 /\ run = None
    /\ session = NoSession
    \* line 96: the warning shown when the fallback slice was taken
    /\ messages = IF SelectQuarter(f_cfs, rpt) = <<>>
                  THEN << <<"warning", "qtd_not_found">> >> ELSE <<>>

\* items = self._facts_to_items(sliced), returning
FactsToItems ==
    /\ pc = "sliced"
    /\ pc' = "mapped"
    /\ items' \in FactsToItemsReturns(sliced)
    /\ UNCHANGED <<extractVars, sliceVars, raised, stmt, mergeVars, appVars>>

\* items = self._facts_to_items(sliced), raising: the except clause of
\* load_file (lines 111-113) shows the error and None is returned
FactsToItemsFails ==
    /\ pc = "sliced"
    /\ FactsToItemsRaises(sliced)
    /\ pc' = "raised"
    /\ raised' = TRUE
    /\ messages' = Append(messages, <<"error", "exception">>)
    /\ UNCHANGED <<extractVars, sliceVars, items, stmt, mergeVars,
                   uploaded_files, cursor, run, session>>

NextMap == FactsToItems \/ FactsToItemsFails

SpecMap == InitMap /\ [][NextMap]_vars

---------------------------------------------------------------------------
(* Claims about the Concept Mapper, checked under SpecMap.                 *)

\* the values of the facts of the slice that match an item: through any of
\* its exact aliases, or through its regex when no exact alias matched
AliasHit ==
    [std \in Range(ConceptItems) |-> [n \in Vocabulary |->
        \E a \in 1..Len(CONCEPT_MAP(std)) :
            Spell[n] = LocalNameChars(Spell[CONCEPT_MAP(std)[a]])]]

ExactMatches(std) ==
    { sliced[i].value : i \in { k \in 1..Len(sliced) :
        AliasHit[std][sliced[k].concept_local] } }

RegexMatches(std) ==
    IF std \in Range(RegexItems)
    THEN { sliced[i].value : i \in { k \in 1..Len(sliced) :
              RegexHit[std][sliced[k].concept_local] } }
    ELSE {}

Matches(std) == IF ExactMatches(std) # {} THEN ExactMatches(std) ELSE RegexMatches(std)

IsLargest(v, S) == v \in S /\ \A w \in S : Abs(w) <= Abs(v)

\* C6 (as claimed): whenever facts of the slice match a canonical item, the
\* mapper stores for that item the value of a matching fact of largest
\* absolute value, sign preserved.
C6_LargestAbsoluteWins ==
    pc \in {"mapped", "raised"} =>
        \A std \in Range(ConceptItems) :
            Matches(std) # {} =>
                /\ pc = "mapped"
                /\ std \in DOMAIN items
                /\ IsLargest(items[std], Matches(std))

\* C6: what holds of the code: the same, whenever the mapper returns.
C6_LargestAbsoluteWinsOnReturn ==
    pc = "mapped" =>
        \A std \in Range(ConceptItems) :
            Matches(std) # {} =>
                std \in DOMAIN items /\ IsLargest(items[std], Matches(std))

C6_Witness ==
    /\ pc = "raised"
    /\ Cardinality(ExactMatches("Sales")) > 1

\* C7: when revenue and cost of sales are in the mapped items and no fact
\* mapped to gross profit, gross profit = revenue - cost of sales exactly;
\* when a fact mapped to gross profit, the item keeps the mapped value.
C7_GrossProfitDerived ==
    pc = "mapped" =>
        /\ ( /\ Matches("GrossProfit") = {}
             /\ "Sales" \in DOMAIN items
             /\ "CostOfSales" \in DOMAIN items )
           => ( /\ "GrossProfit" \in DOMAIN items
                /\ items["GrossProfit"] = items["Sales"] - items["CostOfSales"] )
        /\ Matches("GrossProfit") # {}
           => ( /\ "GrossProfit" \in DOMAIN items
                /\ IsLargest(items["GrossProfit"], Matches("GrossProfit")) )

C7_Witness ==
    /\ pc = "mapped"
    /\ Matches("GrossProfit") = {}
    /\ "Sales" \in DOMAIN items /\ items["Sales"] = 1000
    /\ "CostOfSales" \in DOMAIN items /\ items["CostOfSales"] = 600
    /\ items["GrossProfit"] = 400

SecondaryItems == {"NonOpIncome", "NonOpExpense"}

\* the local names the claim speaks of: those listed for the two items
SecondaryNames(std) ==
    IF std = "NonOpIncome"
    THEN {"nonoperatingincome", "otherincome", "financialincome"}
    ELSE {"nonoperatingexpense", "otherexpense", "financialcost", "interestexpense"}

\* the values of the facts of the slice with one of these local names
SecondaryValues(std) ==
    { sliced[i].value : i \in { k \in 1..Len(sliced) :
        sliced[k].concept_local \in SecondaryNames(std) } }

\* C17 (as claimed): the two secondary items have no exact-alias list and
\* are resolved through the regex path only: a fact named otherincome or
\* interestexpense is mapped to them only if a regex of the item matches it.
C17_SecondaryByRegexOnly ==
    pc = "mapped" =>
        \A std \in SecondaryItems :
            /\ CONCEPT_MAP(std) = <<>>
            /\ std \in DOMAIN items => RegexMatches(std) # {}

\* C17: the two secondary items have an exact-alias list and no regex, and
\* are resolved through the exact path only: the item is in the result
\* exactly when a fact of the slice has one of its alias names, with the
\* value of such a fact of largest magnitude.
C17_SecondaryByAliasOnly ==
    pc = "mapped" =>
        \A std \in SecondaryItems :
            /\ std \notin Range(RegexItems)
            /\ std \in DOMAIN items <=> SecondaryValues(std) # {}
            /\ std \in DOMAIN items => IsLargest(items[std], SecondaryValues(std))

\* facts named otherincome and interestexpense were mapped to the two items
C17_Witness ==
    /\ pc = "mapped"
    /\ \E i \in 1..Len(sliced) : sliced[i].concept_local = "otherincome"
    /\ \E i \in 1..Len(sliced) : sliced[i].concept_local = "interestexpense"
    /\ "NonOpIncome" \in DOMAIN items /\ items["NonOpIncome"] = 600
    /\ "NonOpExpense" \in DOMAIN items /\ items["NonOpExpense"] = -1000

\* C18: operating income is derived as gross profit - SG&A only when no fact
\* mapped to it and both gross profit (mapped or derived) and SG&A are in
\* the items; beside gross profit and operating income no item is derived:
\* net income, revenue, cost of sales, SG&A (and the two secondary items)
\* are in the result only with the value of a fact of the slice.
C18_DerivationScope ==
    pc = "mapped" =>
        /\ Matches("OperatingIncome") # {} =>
               /\ "OperatingIncome" \in DOMAIN items
               /\ items["OperatingIncome"] \in Matches("OperatingIncome")
        /\ Matches("OperatingIncome") = {} =>
               IF "GrossProfit" \in DOMAIN items /\ "SGA" \in DOMAIN items
               THEN /\ "OperatingIncome" \in DOMAIN items
                    /\ items["OperatingIncome"] = items["GrossProfit"] - items["SGA"]
               ELSE "OperatingIncome" \notin DOMAIN items
        /\ \A std \in Range(ConceptItems) \ {"GrossProfit", "OperatingIncome"} :
               std \in DOMAIN items => items[std] \in Matches(std)
        /\ DOMAIN items \subseteq Range(ConceptItems)

\* revenue 1000, cost of sales 600 and SG&A 600 were mapped: gross profit
\* 400 and operating income -200 were derived, net income was not
C18_Witness ==
    /\ pc = "mapped"
    /\ Matches("OperatingIncome") = {} /\ Matches("GrossProfit") = {}
    /\ DOMAIN items = {"Sales", "CostOfSales", "GrossProfit", "SGA", "OperatingIncome"}
    /\ items["GrossProfit"] = 400
    /\ items["SGA"] = 600
    /\ items["OperatingIncome"] = -200

\* a mapped operating income is kept although gross profit and SG&A are there
C18_MappedKept ==
    /\ pc = "mapped"
    /\ "GrossProfit" \in DOMAIN items /\ "SGA" \in DOMAIN items
    /\ items["OperatingIncome"] = 1000
    /\ items["GrossProfit"] - items["SGA"] # 1000

\* the values of the facts of the slice whose concept_local is 'revenue'
RevenueValues ==
    { sliced[i].value : i \in { k \in 1..Len(sliced) :
        sliced[k].concept_local = "revenue" } }

\* C25 (as claimed): for every non-empty slice the mapper returns a dict
\* without raising, and when the slice holds facts whose concept_local is
\* 'revenue' and no fact of another revenue alias, revenue is the value of
\* largest magnitude among them.
C25_MapperTotal ==
    (pc \in {"mapped", "raised"} /\ sliced # <<>>) =>
        /\ pc = "mapped"
        /\ (RevenueValues # {} /\ ExactMatches("Sales") = RevenueValues) =>
               /\ "Sales" \in DOMAIN items
               /\ IsLargest(items["Sales"], RevenueValues)

\* C25: what holds of the code: the mapper returns for every slice without
\* a fact whose concept_local is 'revenue', and for a slice whose only
\* revenue-alias fact is one such fact, which gives revenue.
C25_MapperTotalWithoutRevenueFacts ==
    (pc \in {"mapped", "raised"} /\ sliced # <<>>) =>
        /\ RevenueValues = {} => pc = "mapped"
        /\ ( /\ Cardinality({ k \in 1..Len(sliced) :
                                AliasHit["Sales"][sliced[k].concept_local] }) = 1
             /\ RevenueValues # {} ) =>
               /\ pc = "mapped"
               /\ RevenueValues = { items["Sales"] }

\* a slice of two revenue facts, 600 then 1000, and nothing else: the mapper
\* raises
C25_Witness ==
    /\ pc = "raised"
    /\ Len(sliced) = 2
    /\ sliced[1].concept_local = "revenue" /\ sliced[1].value = 600
    /\ sliced[2].concept_local = "revenue" /\ sliced[2].value = 1000
    /\ items = EmptyDict

\* one revenue fact alone gives revenue
C25_SingleRevenue ==
    /\ pc = "mapped"
    /\ Len(sliced) = 1
    /\ sliced[1].concept_local = "revenue"
    /\ items["Sales"] = sliced[1].value

\* the facts of the slice the regex pass can have taken the value of an item
\* from: those its regex matches that hold the value of the item
RegexSuppliers(std) ==
    { sliced[i] : i \in { k \in 1..Len(sliced) :
        /\ RegexHit[std][sliced[k].concept_local]
        /\ sliced[k].value = items[std] } }

\* the text is an exact alias of another item than std
AliasOfAnother(std, n) ==
    \E other \in Range(ConceptItems) \ {std} : AliasHit[other][n]

\* C26 (as claimed): a fact whose concept_local is an exact alias of one
\* item never supplies the value of another item: an item without a fact of
\* its own aliases is not given, through its regex, the value of a fact
\* that is an exact alias of a different item.
C26_ItemSeparation ==
    pc = "mapped" =>
        \A std \in Range(RegexItems) :
            (ExactMatches(std) = {} /\ RegexMatches(std) # {}) =>
                \E f \in RegexSuppliers(std) :
                    ~AliasOfAnother(std, f.concept_local)

\* C26: what holds of the code: in the exact pass an item takes its value
\* from a fact of its own aliases only.
C26_SeparationInExactPass ==
    pc = "mapped" =>
        \A std \in Range(ConceptItems) :
            ExactMatches(std) # {} => items[std] \in ExactMatches(std)

\* a slice of one cost-of-sales fact: revenue takes its value through the
\* revenue regex, and the derived gross profit is 0
C26_Witness ==
    /\ pc = "mapped"
    /\ Len(sliced) = 1
    /\ sliced[1].concept_local = "costofsales"
    /\ items["CostOfSales"] = sliced[1].value
    /\ items["Sales"] = sliced[1].value
    /\ items["GrossProfit"] = 0

---------------------------------------------------------------------------
(* The statement run: line 108 of load_file on a non-empty items dict.     *)

\* the values an item takes in the runs (absent when the set is left out)
StmtValues(std) ==
    CASE std = "Sales"           -> { 0, 1000, -500, 80000 }
      [] std = "CostOfSales"     -> { 600 }
      [] std = "GrossProfit"     -> { 400, 0 }
      [] std = "SGA"             -> { 150 }
      [] std = "OperatingIncome" -> { -250 }
      [] std = "NetIncome"       -> { 125000 }
      [] std = "NonOpIncome"     -> { 50 }
      [] std = "NonOpExpense"    -> { 0 - 50 }

\* the dicts with the given keys
RECURSIVE DictsOver(_)
DictsOver(keys) ==
    IF keys = {} THEN { EmptyDict }
    ELSE LET k == CHOOSE x \in keys : TRUE
         IN  { d @@ (k :> v) : d \in DictsOver(keys \ {k}), v \in StmtValues(k) }

StmtDicts ==
    UNION { DictsOver(keys) : keys \in (SUBSET Range(StatementOrder)) \ {{}} }

InitStmt ==
    /\ pc = "mapped"
    /\ items \in StmtDicts
    /\ raised = FALSE
    /\ OtherIdle(<<"extract", "slice", "stmt", "merge", "pandas", "app">>)

\* df = self._build_statement(items, company)
BuildStatement ==
    /\ pc = "mapped"
    /\ pc' = "built"
    /\ stmt' = _build_statement(items, "A")
    /\ UNCHANGED <<extractVars, sliceVars, mapVars, mergeVars, appVars>>

NextStmt == BuildStatement

SpecStmt == InitStmt /\ [][NextStmt]_vars

---------------------------------------------------------------------------
(* Claims about the Statement Builder, checked under SpecStmt.             *)

RatioLabels == { RatioOrder[i][1] : i \in 1..Len(RatioOrder) }

RowLabels(t) == { t.rows[i].label : i \in 1..Len(t.rows) }

\* the rows of a table with a label
RowsOf(t, label) == { i \in 1..Len(t.rows) : t.rows[i].label = label }

\* C9: no ratio row is emitted when revenue is absent or zero; otherwise a
\* ratio row is emitted for exactly the numerators that are present (once
\* each), and its raw value r satisfies r = numerator / revenue * 100.
C9_Ratios ==
    pc = "built" =>
        IF "Sales" \notin DOMAIN items \/ items["Sales"] = 0
        THEN RowLabels(stmt) \cap RatioLabels = {}
        ELSE \A k \in 1..Len(RatioOrder) :
                LET label == RatioOrder[k][1]
                    num   == RatioOrder[k][2]
                IN  IF num \notin DOMAIN items
                    THEN RowsOf(stmt, label) = {}
                    ELSE /\ Cardinality(RowsOf(stmt, label)) = 1
                         /\ \A i \in RowsOf(stmt, label) :
                                LET r == stmt.rows[i].cells[<<"A", "raw">>]
                                IN  /\ r[1] = "frac"
                                    /\ r[3] # 0
                                    /\ r[2] * items["Sales"] = items[num] * 100 * r[3]

C9_Witness ==
    /\ pc = "built"
    /\ "Sales" \in DOMAIN items /\ items["Sales"] = -500
    /\ "NetIncome" \notin DOMAIN items
    /\ "CostOfSales" \in DOMAIN items
    /\ RowsOf(stmt, "NetMargin") = {}
    /\ \E i \in RowsOf(stmt, "CostRatio") :
           stmt.rows[i].cells[<<"A", "raw">>] = <<"frac", -120, 1>>

---------------------------------------------------------------------------
(* The merging run: merge_company_data on a list of statement tables.      *)

MaxFiles == 3

\* the item dicts of the statements merged: with and without net income,
\* with and without ratio rows
MergeDicts ==
    { [k \in {"Sales", "CostOfSales"} |-> IF k = "Sales" THEN 1000 ELSE 600],
      [k \in {"Sales", "NetIncome"} |-> IF k = "Sales" THEN 1000 ELSE 125000],
      [k \in {"NetIncome"} |-> 0 - 125000],
      [k \in {"Sales", "SGA"} |-> IF k = "Sales" THEN 0 ELSE 150] }

MergeCompanies == {"A", "B", "C"}

MergeTables == { _build_statement(d, c) : d \in MergeDicts, c \in MergeCompanies }

InitMerge ==
    /\ pc = "loaded"
    /\ dataframes \in SeqsUpTo(MergeTables, MaxFiles)
    /\ merged = None
    /\ pandas \in PandasBehaviours
    /\ OtherIdle(<<"extract", "slice", "map", "stmt", "app">>)

\* merged = processor.merge_company_data(dataframes)
MergeCompanyData ==
    /\ pc = "loaded"
    /\ pc' = "merged"
    /\ merged' = merge_company_data(dataframes, pandas).table
    /\ messages' = messages \o
           [i \in 1..Len(merge_company_data(dataframes, pandas).warned) |->
               <<"warning", "merge_error">>]
    /\ UNCHANGED <<extractVars, sliceVars, mapVars, stmt, dataframes, pandas,
                   uploaded_files, cursor, run, session>>

NextMerge == MergeCompanyData

SpecMerge == InitMerge /\ [][NextMerge]_vars

---------------------------------------------------------------------------
(* Claims about the Multi-Company Merger, checked under SpecMerge.         *)

\* the company of a statement table
CompanyOf(t) == t.columns[1][1]

InputLabels == UNION { RowLabels(dataframes[i]) : i \in 1..Len(dataframes) }

\* the input tables of a company
TablesOf(c) == { i \in 1..Len(dataframes) : CompanyOf(dataframes[i]) = c }

DistinctCompanies ==
    \A i, j \in 1..Len(dataframes) :
        CompanyOf(dataframes[i]) = CompanyOf(dataframes[j]) => i = j

\* in the merged table every label of the inputs has one row, and the cell
\* of a company whose table has no such row is the text "-"
UnionWithPlaceholders ==
    /\ RowLabels(merged) = InputLabels
    /\ \A l \in InputLabels : Cardinality(RowsOf(merged, l)) = 1
    /\ \A i \in 1..Len(dataframes) : \A l \in InputLabels :
           (\A k \in TablesOf(CompanyOf(dataframes[i])) :
                l \notin RowLabels(dataframes[k]))
           => /\ <<CompanyOf(dataframes[i]), "display">> \in Range(merged.columns)
              /\ RowAt(merged, l).cells[<<CompanyOf(dataframes[i]), "display">>]
                     = <<"str", "-">>

\* C10 (as claimed): for every company C among the inputs and every label L
\* of the union of the inputs' labels, the merged cell at (L, C) is the text
\* "-" when C has no row L, and the merged rows are the union of the labels
\* of all inputs.
C10_UnionWithPlaceholders ==
    pc = "merged" => UnionWithPlaceholders

\* C10: what holds of the code: the same, when no two inputs carry the same
\* company name; a table whose company is already a column is left out with
\* a warning.
C10_UnionWhenCompaniesDistinct ==
    (pc = "merged" /\ DistinctCompanies) => UnionWithPlaceholders

\* two tables of one company, the second with a label of its own: the second
\* is left out and its label has no row
C10_Witness ==
    /\ pc = "merged"
    /\ Len(dataframes) = 2
    /\ CompanyOf(dataframes[1]) = CompanyOf(dataframes[2])
    /\ "NetIncome" \in RowLabels(dataframes[2])
    /\ "NetIncome" \notin RowLabels(merged)
    /\ messages = << <<"warning", "merge_error">> >>

\* Scenario C: two companies, one reporting net income and one not
C10_ScenarioC ==
    /\ pc = "merged"
    /\ Len(dataframes) = 2
    /\ CompanyOf(dataframes[1]) = "A" /\ CompanyOf(dataframes[2]) = "B"
    /\ "NetIncome" \notin RowLabels(dataframes[1])
    /\ "NetIncome" \in RowLabels(dataframes[2])
    /\ RowAt(merged, "NetIncome").cells[<<"A", "display">>] = <<"str", "-">>
    /\ RowAt(merged, "NetIncome").cells[<<"B", "display">>] = <<"amt", "", 12, "man">>

\* the columns of the input tables, display and raw-value alike
InputColumns == UNION { Range(dataframes[i].columns) : i \in 1..Len(dataframes) }

\* C11 (as claimed): for a list of two or more statement tables the merged
\* table has one display column and one raw-value column for every input
\* company: its columns are the union of the columns of the inputs.
C11_AllColumnsMerged ==
    (pc = "merged" /\ Len(dataframes) >= 2) =>
        Range(merged.columns) = InputColumns

\* C11: what holds of the code: the merged columns are the two columns of
\* the first table and the display columns of the later tables of another
\* company; no raw-value column of a later table is ever joined.
C11_LaterRawColumnsDropped ==
    (pc = "merged" /\ Len(dataframes) >= 2) =>
        Range(merged.columns) =
            Range(dataframes[1].columns)
            \cup { c \in InputColumns : c[2] = "display" }

\* two companies: the raw-value column of the second is not in the result,
\* its display column is
C11_Witness ==
    /\ pc = "merged"
    /\ Len(dataframes) = 2
    /\ CompanyOf(dataframes[1]) = "A" /\ CompanyOf(dataframes[2]) = "B"
    /\ merged.columns = << <<"A", "display">>, <<"A", "raw">>, <<"B", "display">> >>
    /\ <<"B", "raw">> \in InputColumns
    /\ messages = <<>>

---------------------------------------------------------------------------
(* The manual upload handler of main_app, lines 181-206: the files of the  *)
(* batch go through load_file one by one, the tables are merged and the    *)
(* result is stored in the session; then the insight generator is called   *)
(* and its text is stored. pc is "idle" before the button is pressed,      *)
(* "loop" in the loop of lines 187-194, "stored" between the two session   *)
(* writes of lines 197 and 198, "insight" while the generator is awaited   *)
(* (the tables are stored, line 202 has not assigned) and "done" when the  *)
(* handler is left. The handlers of the other tabs (lines 253-412) and the *)
(* keys they write are outside the model.                                  *)

MaxBatch == 2

\* the largest batch the user selects afterwards
MaxReselect == 1

\* a document that declares the contexts its facts refer to
Doc(elements) ==
    [contexts |-> SelectSeq(DeclaredContexts,
                            LAMBDA c : \E i \in 1..Len(elements) :
                                          elements[i].contextRef = c.context_id),
     units    |-> DeclaredUnits,
     elements |-> elements]

Named(doc, registrant) ==
    [contexts |-> doc.contexts, units |-> doc.units, elements |-> doc.elements,
     registrant |-> registrant]

\* Scenario A: one consolidated Jul1-Sep30 KRW context, revenue and cost
ScenarioA ==
    Doc(<< Element("ifrs-full:Revenue", 1000000000, "KRW", "D_0701_0930_CFS"),
           Element("costofsales", 600000000, "KRW", "D_0701_0930_CFS") >>)

UploadedFile(name, size, soup) == [name |-> name, size |-> size, soup |-> soup]

\* the files of the batches: over the ceiling and at it, without content,
\* without a fact, facts in another currency (fallback slice), facts that
\* make the mapper raise, a fact the backup scanner alone finds, a fact
\* nothing finds, a fact the mapper finds beside a larger one only the backup
\* scanner would find, a primary slice in which nothing maps beside a fact
\* the fallback slice would hold
Files ==
    { UploadedFile("report.xml", MaxUploadBytes + 1, Named(ScenarioA, "A")),
      UploadedFile("sk_q3.xml", MaxUploadBytes, Named(ScenarioA, "A")),
      UploadedFile("gscaltex.xml", 1000,
          Doc(<< Element("ifrs-full:Revenue", 2000, "KRW", "D_0701_0930_CFS"),
                 Element("ifrs-full:ProfitLoss", 125000, "KRW", "D_0701_0930_CFS") >>)),
      [name |-> "_.xml", size |-> 0],
      [name |-> "report.xml", soup |-> Doc(<<>>)],
      UploadedFile("report.xml", 1000,
          Doc(<< Element("operatingincome", 300, "USD", "D_0701_0930") >>)),
      UploadedFile("_.xml", 1000,
          Doc(<< Element("ifrs-full:Revenue", 600, "KRW", "D_0701_0930_CFS"),
                 Element("ifrs-full:Revenue", 1000, "KRW", "D_0701_0930_CFS") >>)),
      UploadedFile("sk_q3.xml", 1000,
          Doc(<< Element("ifrs-full:Revenue", 1000000000, "KRW", "I_0930_CFS") >>)),
      UploadedFile("report.xml", 1000,
          Named(Doc(<< Element("ifrs-full:Assets", 1000, "KRW", "D_0701_0930_CFS") >>),
                "B")),
      UploadedFile("sk_q3.xml", 2000,
          Doc(<< Element("ifrs-full:Revenue", 20000, "KRW", "D_0701_0930_CFS"),
                 Element("ifrs-full:Revenue", 1000000000, "KRW", "I_0930_CFS") >>)),
      UploadedFile("gscaltex.xml", 2000,
          Doc(<< Element("ifrs-full:Assets", 1000, "KRW", "D_0701_0930_CFS"),
                 Element("operatingincome", 300, "USD", "D_0701_0930") >>)) }

\* the batches the uploader holds at first
Batches == SeqsUpTo(Files, MaxBatch)

Init ==
    /\ pc = "idle"
    /\ uploaded_files \in Batches
    /\ cursor = 0
    /\ run = None
    /\ session = NoSession
    /\ messages = <<>>
    /\ pandas \in PandasBehaviours
    /\ OtherIdle(<<"extract", "slice", "map", "stmt", "merge">>)

\* A widget interaction makes Streamlit run the script again. A run that
\* is inside the handler is stopped at its next yield point: an st.* call
\* (the loop of lines 187-194 makes one before and one after each load_file
\* call, and load_file makes more) or an access of st.session_state, which
\* yields before it reads or writes. The exception that stops the run is no
\* Exception, so the except clause of load_file does not catch it. The
\* locals of the stopped run (dataframes, the table of a file in progress)
\* and the messages it showed are gone, the session state stays. A stop
\* inside the processing of a file and a stop between two files leave the
\* same state, so the steps below stop the loop between two files; a stop
\* at the write of line 197 comes before the write and is a stop in the
\* loop after the last file; a stop at the read or at the write of line 198
\* finds manual_financial_data written and financial_data not.

\* the user changes the selection of the file uploader (lines 174-179): the
\* script runs again with the new selection. A run that is in the loop,
\* between the two writes or waiting for the insight generator is stopped.
ChooseFiles ==
    /\ pc \in {"idle", "loop", "stored", "insight", "done"}
    /\ uploaded_files' \in SeqsUpTo(Files, MaxReselect) \ {uploaded_files}
    /\ pc' = "idle"
    /\ cursor' = 0
    /\ run' = None
    /\ dataframes' = <<>>
    /\ messages' = <<>>
    /\ UNCHANGED <<extractVars, sliceVars, mapVars, stmt, pandas, merged, session>>

\* the button is pressed (line 182): the script runs again, with a new
\* processor and an empty list; pressed during the loop, it stops the run
\* and the new run starts at the first file
StartAnalysis ==
    /\ pc \in {"idle", "loop", "stored", "insight", "done"}
    /\ uploaded_files # <<>>
    /\ pc' = "loop"
    /\ cursor' = 0
    /\ run' = None
    /\ dataframes' = <<>>
    /\ messages' = <<>>
    /\ UNCHANGED <<extractVars, sliceVars, mapVars, stmt, pandas, merged, uploaded_files, session>>

\* a widget that has no handler is used (the company selection of line
\* 48, the year selection of line 49, the checkbox of line 55, the year
\* selection of line 58): the script runs again with the same files
\* selected and neither button pressed, so neither handler runs and shows
\* a message; a run in the handler is stopped and what it had not written
\* to the session state is lost
Rerun ==
    /\ pc \in {"idle", "loop", "stored", "insight", "done"}
    /\ pc' = "idle"
    /\ cursor' = 0
    /\ run' = None
    /\ dataframes' = <<>>
    /\ messages' = <<>>
    /\ UNCHANGED <<extractVars, sliceVars, mapVars, stmt, pandas, merged, uploaded_files, session>>

\* faulty variant: the loop is left at the first file that fails
ProcessFile_StopsAtFailure ==
    /\ pc = "loop"
    /\ cursor < Len(uploaded_files)
    /\ \E r \in load_file(uploaded_files[cursor + 1]) :
         LET ok == r.result # <<>> /\ r.result[1].rows # <<>>
         IN
           /\ run' = r
           /\ dataframes' = IF ok THEN Append(dataframes, r.result[1]) ELSE dataframes
           /\ messages' = messages \o << <<"write", "processing">> >> \o r.messages
                          \o << IF ok THEN <<"success", "file_done">>
                                ELSE <<"error", "file_failed">> >>
           /\ cursor' = IF ok THEN cursor + 1 ELSE Len(uploaded_files)
    /\ UNCHANGED <<extractVars, pc, sliceVars, mapVars, stmt, merged, pandas, uploaded_files,
                   session>>

\* one turn of the loop of lines 187-194
ProcessFile ==
    /\ pc = "loop"
    /\ cursor < Len(uploaded_files)
    /\ \E r \in load_file(uploaded_files[cursor + 1]) :
         LET ok == r.result # <<>> /\ r.result[1].rows # <<>>
         IN
           /\ run' = r
           /\ dataframes' = IF ok THEN Append(dataframes, r.result[1]) ELSE dataframes
           /\ messages' = messages \o << <<"write", "processing">> >> \o r.messages
                          \o << IF ok THEN <<"success", "file_done">>
                                ELSE <<"error", "file_failed">> >>
    /\ cursor' = cursor + 1
    /\ UNCHANGED <<extractVars, pc, sliceVars, mapVars, stmt, merged, pandas, uploaded_files,
                   session>>

\* lines 196-197: the tables are merged and the result is stored under
\* manual_financial_data; financial_data and financial_insight keep what
\* they held
StoreMerged ==
    /\ pc = "loop"
    /\ cursor = Len(uploaded_files)
    /\ dataframes # <<>>
    /\ pc' = "stored"
    /\ merged' = merge_company_data(dataframes, pandas).table
    /\ session' = [session EXCEPT !.manual_financial_data = <<merged'>>]
    /\ messages' = messages \o
           [i \in 1..Len(merge_company_data(dataframes, pandas).warned) |->
               <<"warning", "merge_error">>]
    /\ UNCHANGED <<extractVars, sliceVars, mapVars, stmt, pandas, dataframes, uploaded_files, cursor, run>>

\* lines 198-201: financial_data is given what manual_financial_data holds
\* and the insight generator is called
StoreFinancialData ==
    /\ pc = "stored"
    /\ pc' = "insight"
    /\ session' = [session EXCEPT !.financial_data = session.manual_financial_data]
    /\ UNCHANGED <<extractVars, sliceVars, mapVars, stmt, mergeVars, uploaded_files, cursor, run,
                   messages>>

\* the texts generate_financial_insight can return: the generator is outside
\* the modelled code, two texts stand for what it gives
InsightTexts == { "insight", "other_insight" }

\* lines 202-204: the generator returns, its text is stored and the success
\* message is shown
InsightReturns ==
    /\ pc = "insight"
    /\ pc' = "done"
    /\ \E text \in InsightTexts :
         session' = [session EXCEPT !.financial_insight = <<text>>]
    /\ messages' = Append(messages, <<"success", "analysis_done">>)
    /\ UNCHANGED <<extractVars, sliceVars, mapVars, stmt, mergeVars, uploaded_files, cursor, run>>

\* lines 201-202: the generator (or its construction) raises, as a failed
\* request does; nothing catches the exception, the handler is left with
\* the tables stored, financial_insight as it was and no success message
InsightRaises ==
    /\ pc = "insight"
    /\ pc' = "done"
    /\ messages' = Append(messages, <<"exception", "insight">>)
    /\ UNCHANGED <<extractVars, sliceVars, mapVars, stmt, mergeVars, uploaded_files, cursor, run,
                   session>>

\* what the DART handler of lines 61-95 shows. Line 63 constructs a
\* collector outside the modelled code, which may raise. With a company
\* selected, line 65 looks up process_dart_data on the processor, which
\* FinancialDataProcessor does not define: AttributeError. With none,
\* dataframes is empty and line 95 shows the error, after the messages of
\* lines 72 and 85 when quarterly collection is chosen.
DartMessages ==
    { << <<"exception", "dart">> >>,
      << <<"error", "collect_failed">> >>,
      << <<"info", "quarterly_start">>, <<"warning", "no_quarterly">>,
         <<"error", "collect_failed">> >> }

\* the DART button is pressed (line 61): the script runs again and the
\* handler of lines 62-95 runs; it never reaches the assignments of lines
\* 88-93, the session state stays. Pressed during the loop, it stops the
\* run with nothing merged or stored.
DartAnalysis ==
    /\ pc \in {"idle", "loop", "stored", "insight", "done"}
    /\ pc' = "idle"
    /\ cursor' = 0
    /\ run' = None
    /\ dataframes' = <<>>
    /\ messages' \in DartMessages
    /\ UNCHANGED <<extractVars, sliceVars, mapVars, stmt, pandas, merged, uploaded_files, session>>

\* lines 205-206: no file gave a table
NothingToStore ==
    /\ pc = "loop"
    /\ cursor = Len(uploaded_files)
    /\ dataframes = <<>>
    /\ pc' = "done"
    /\ messages' = Append(messages, <<"error", "no_data">>)
    /\ UNCHANGED <<extractVars, sliceVars, mapVars, stmt, mergeVars, uploaded_files, cursor, run,
                   session>>

Next ==
    \/ ChooseFiles \/ StartAnalysis \/ Rerun \/ ProcessFile \/ StoreMerged
    \/ StoreFinancialData \/ InsightReturns \/ InsightRaises \/ NothingToStore \/ DartAnalysis

Spec == Init /\ [][Next]_vars

---------------------------------------------------------------------------
(* Claims about load_file, checked under Spec.                             *)

\* a file has gone through load_file and run holds what the call did
Loaded == pc \in {"loop", "stored", "insight", "done"} /\ cursor > 0

LastFile == uploaded_files[cursor]

Oversized(f) == "size" \in DOMAIN f /\ f.size > MaxUploadBytes

\* C1: when the reported size of the file exceeds 50 MB, load_file shows the
\* size-limit error and returns None having run no step: nothing is read,
\* decoded, parsed, extracted, sliced or mapped.
C1_OversizeRejectedFirst ==
    (Loaded /\ Oversized(LastFile)) =>
        /\ run.calls = <<>>
        /\ run.messages = << <<"error", "too_large">> >>
        /\ run.result = <<>>
        /\ DOMAIN run.items = {}

\* an oversized file with a well-formed document went through the loop and
\* left no table
C1_Witness ==
    /\ Loaded
    /\ Oversized(LastFile)
    /\ "soup" \in DOMAIN LastFile
    /\ Len(uploaded_files) = 1
    /\ run.calls = <<>>
    /\ dataframes = <<>>

\* the filing of Scenario A: one declared context, consolidated, a duration
\* from Jul 1 to Sep 30, and the two facts, in KRW
IsScenarioA(f) ==
    /\ ~Oversized(f)
    /\ "soup" \in DOMAIN f
    /\ Len(f.soup.contexts) = 1
    /\ f.soup.contexts[1].is_consolidated = "True"
    /\ f.soup.contexts[1].period_type = "duration"
    /\ MonthOf(f.soup.contexts[1].start) = 7
    /\ MonthOf(f.soup.contexts[1].end) = 9
    /\ [i \in 1..Len(f.soup.elements) |->
           <<f.soup.elements[i].name, f.soup.elements[i].value,
             ResolveUnit(f.soup.units, f.soup.elements[i].unitRef)>>]
       = << <<"ifrs-full:Revenue", 1000000000, "iso4217:KRW">>,
            <<"costofsales", 600000000, "iso4217:KRW">> >>

\* C8: the filing of Scenario A is processed successfully: the items are
\* revenue 1e9, cost of sales 6e8 and the derived gross profit 4e8, and the
\* revenue row of the returned table shows "10억원".
C8_ScenarioA ==
    (Loaded /\ IsScenarioA(LastFile)) =>
        /\ DOMAIN run.items = {"Sales", "CostOfSales", "GrossProfit"}
        /\ run.items["Sales"] = 1000000000
        /\ run.items["CostOfSales"] = 600000000
        /\ run.items["GrossProfit"] = 400000000
        /\ Len(run.result) = 1
        /\ \E c \in Range(run.result[1].columns) :
               /\ c[2] = "display"
               /\ RowAt(run.result[1], "Sales").cells[c] = <<"amt", "", 10, "eok">>

C8_Witness ==
    /\ Loaded
    /\ IsScenarioA(LastFile)
    /\ run.items["GrossProfit"] = 400000000
    /\ Len(dataframes) = cursor
    /\ run.messages = <<>>

\* the call ended at one of the failure exits of load_file
FailureShown ==
    \E m \in Range(run.messages) :
        m \in { <<"error", "too_large">>, <<"error", "encoding">>,
                <<"error", "no_facts">>, <<"error", "no_items">>,
                <<"error", "exception">> }

\* the failures of the stages, told from the file alone
FailsEarly(f) ==
    \/ Oversized(f)
    \/ "soup" \notin DOMAIN f
    \/ _xbrl_to_facts(f.soup, _extract_company_name(f.soup, f.name)) = <<>>

\* C13: load_file always ends by returning: every failure (oversize,
\* undecodable content, empty fact table, no item after mapping and backup
\* scan, an exception inside) gives None, and every result that is not None
\* is a statement table with at least one line-item row.
C13_FailuresGiveNone ==
    Loaded =>
        /\ Len(run.result) <= 1
        /\ (FailsEarly(LastFile) \/ FailureShown \/ DOMAIN run.items = {})
               => run.result = <<>>
        /\ run.result = <<>> => FailureShown
        /\ run.result # <<>> =>
               /\ run.result[1].rows # <<>>
               /\ \E l \in Range(StatementOrder) : l \in RowLabels(run.result[1])

\* a batch of two: the first file gave a table, the mapper raised on the
\* second and load_file returned None for it
C13_Witness ==
    /\ Loaded
    /\ cursor = 2
    /\ Len(dataframes) = 1
    /\ dataframes[1].rows # <<>>
    /\ run.messages = << <<"error", "exception">> >>
    /\ run.result = <<>>

\* a list of tables with the result of one load_file call put after it,
\* when the call gave a table with rows
WithResult(tables, result) ==
    IF result # <<>> /\ result[1].rows # <<>> THEN Append(tables, result[1])
    ELSE tables

\* the lists the first n files of the batch can give: the tables of the
\* files that succeed among them, in upload order
RECURSIVE TablesOfFirst(_)
TablesOfFirst(n) ==
    IF n = 0 THEN { <<>> }
    ELSE { WithResult(t, o.result) :
             t \in TablesOfFirst(n - 1), o \in load_file(uploaded_files[n]) }

\* the loop is left: every file has been through load_file, and the stored
\* table is replaced by the merge of the successful files' tables, or left
\* as it was when no file succeeded
LoopLeft ==
    (pc = "loop" /\ pc' # "loop") =>
        /\ cursor = Len(uploaded_files)
        /\ dataframes \in TablesOfFirst(Len(uploaded_files))
        /\ IF dataframes = <<>> THEN session' = session
           ELSE session'.manual_financial_data =
                    << merge_company_data(dataframes, pandas).table >>

\* C14 (as claimed): the files are processed one at a time in upload order;
\* a file whose processing fails is skipped and the later files are still
\* processed, so the list handed to the merger is the tables of the
\* successful files in upload order; the stored merged table is replaced
\* only when a file succeeded, otherwise it is left unchanged.
C14_BatchUpload ==
    /\ [](pc \in {"loop", "stored", "insight", "done"} =>
             dataframes \in TablesOfFirst(cursor))
    /\ [][pc = "loop" => cursor' \in {cursor, cursor + 1}]_vars
    /\ [][LoopLeft]_vars

\* a step that stops the run in the loop: the script starts again, idle or
\* at the first file of a new run
StopsLoop == pc = "loop" /\ (pc' = "idle" \/ (pc' = "loop" /\ cursor' = 0))

\* a run stopped in the loop merges and stores nothing: its list is gone and
\* the session state is as it was
LoopStopped == StopsLoop => (dataframes' = <<>> /\ cursor' = 0 /\ session' = session)

\* a turn of the loop takes the next file in upload order and puts its table
\* after the list when the call gave one; the selection and the session
\* state stay
LoopTurn ==
    (pc = "loop" /\ pc' = "loop" /\ cursor' # 0) =>
        /\ cursor < Len(uploaded_files)
        /\ cursor' = cursor + 1
        /\ uploaded_files' = uploaded_files
        /\ session' = session
        /\ \E o \in load_file(uploaded_files[cursor + 1]) :
               /\ run' = o
               /\ dataframes' = WithResult(dataframes, o.result)

\* the loop is left by a run that was not stopped: every file has been
\* through load_file, and the stored table is replaced by the merge of the
\* successful files' tables, or left as it was when no file succeeded
LoopCompleted ==
    (pc = "loop" /\ pc' \in {"stored", "insight", "done"}) =>
        /\ cursor = Len(uploaded_files)
        /\ dataframes \in TablesOfFirst(Len(uploaded_files))
        /\ IF dataframes = <<>> THEN pc' = "done" /\ session' = session
           ELSE /\ pc' = "stored"
                /\ session' = [session EXCEPT !.manual_financial_data =
                                  << merge_company_data(dataframes, pandas).table >>]

\* after the merged table is stored under manual_financial_data the run
\* either goes on and stores the same table under financial_data, or it is
\* stopped there and the session state keeps the one key written
StoredThenCopied ==
    pc = "stored" =>
        \/ /\ pc' = "insight"
           /\ session' = [session EXCEPT !.financial_data =
                                            session.manual_financial_data]
        \/ /\ pc' \in {"idle", "loop", "stored"}
           /\ session' = session

\* C14: unless the run is stopped in the loop by a rerun of the script (then
\* nothing is merged or stored and the files not yet reached are not
\* processed by that run), the files are processed one at a time in upload
\* order; a file whose processing fails is skipped and the later files are
\* still processed, so the list handed to the merger is the tables of the
\* successful files in upload order; the stored merged table is replaced
\* only when a file succeeded, otherwise it is left unchanged. The merged
\* table is stored under manual_financial_data first and under
\* financial_data next; a run stopped between the two has written the first
\* key only.
C14_BatchUploadUnlessStopped ==
    /\ [](pc \in {"loop", "stored", "insight", "done"} =>
             dataframes \in TablesOfFirst(cursor))
    /\ [][LoopStopped]_vars
    /\ [][LoopTurn]_vars
    /\ [][LoopCompleted]_vars
    /\ [][StoredThenCopied]_vars

\* a run was stopped between the writes of lines 197 and 198: the script is
\* idle again, the merged table is stored under manual_financial_data and
\* financial_data holds nothing
C14_StoppedBetweenWrites ==
    /\ pc = "idle"
    /\ session.manual_financial_data # <<>>
    /\ session.financial_data = <<>>

\* a batch of two has been processed: the first file failed, the second gave
\* the one table that was merged and stored
C14_Witness ==
    /\ pc = "done"
    /\ Len(uploaded_files) = 2
    /\ \A o \in load_file(uploaded_files[1]) : o.result = <<>>
    /\ \E o \in load_file(uploaded_files[2]) : dataframes = o.result
    /\ Len(dataframes) = 1
    /\ session.manual_financial_data = dataframes
    /\ session.financial_data = dataframes

\* a later batch in which no file succeeded has been processed: the table
\* stored by the earlier batch is still there
C14_StoredTableKept ==
    /\ pc = "done"
    /\ uploaded_files # <<>>
    /\ dataframes = <<>>
    /\ session.manual_financial_data # <<>>
    /\ session.manual_financial_data[1].rows # <<>>

\* the company name load_file gives the tables of a file
CompanyOfFile(f) == _extract_company_name(f.soup, f.name)

FactsOfFile(f) == _xbrl_to_facts(f.soup, CompanyOfFile(f))

\* the slice of lines 94-97: the primary slice, or the fallback slice when
\* the primary one is empty
SelectedSlice(f) ==
    LET fcts  == FactsOfFile(f)
        r     == _guess_report_type_by_month(fcts)
    IN  IF _slice_to_quarter(fcts, r) = <<>>
        THEN _slice_to_quarter_fallback(fcts, r)
        ELSE _slice_to_quarter(fcts, r)

\* load_file went as far as the mapper and the mapper returned
MapperReturned ==
    /\ Loaded
    /\ "_facts_to_items" \in Range(run.calls)
    /\ <<"error", "exception">> \notin Range(run.messages)

\* C15: the Backup Scanner is invoked if and only if the Concept Mapper
\* returns an empty dict for the selected slice; when the mapper returns an
\* item, the statement is built from the mapper's items alone.
C15_BackupOnlyWhenNothingMapped ==
    MapperReturned =>
        /\ ("_backup_scan" \in Range(run.calls))
               <=> (EmptyDict \in FactsToItemsReturns(SelectedSlice(LastFile)))
        /\ EmptyDict \notin FactsToItemsReturns(SelectedSlice(LastFile)) =>
               /\ run.items \in FactsToItemsReturns(SelectedSlice(LastFile))
               /\ run.result = << _build_statement(run.items,
                                                   CompanyOfFile(LastFile)) >>

\* the mapper found revenue 20000 in the slice; the backup scanner would
\* have found the larger revenue of the instant context, and was not run
C15_Witness ==
    /\ MapperReturned
    /\ run.items = [k \in {"Sales"} |-> 20000]
    /\ _backup_scan(LastFile.soup)["Sales"] = 1000000000
    /\ "_backup_scan" \notin Range(run.calls)
    /\ RowAt(run.result[1], "Sales").cells[<<"SKEnergy", "raw">>] = <<"num", 20000>>

\* nothing was mapped and the backup scanner gave the items
C15_BackupRan ==
    /\ MapperReturned
    /\ FactsToItemsReturns(SelectedSlice(LastFile)) = { EmptyDict }
    /\ "_backup_scan" \in Range(run.calls)
    /\ run.items = [k \in {"Sales"} |-> 1000000000]

\* the slice of line 94
PrimarySlice(f) ==
    _slice_to_quarter(FactsOfFile(f), _guess_report_type_by_month(FactsOfFile(f)))

\* the slice line 97 would give
FallbackSlice(f) ==
    _slice_to_quarter_fallback(FactsOfFile(f),
                               _guess_report_type_by_month(FactsOfFile(f)))

\* load_file went as far as slicing
Sliced == Loaded /\ "_slice_to_quarter" \in Range(run.calls)

\* the position of a step among the steps run, 0 when it was not run
StepAt(step) ==
    IF step \in Range(run.calls)
    THEN CHOOSE i \in 1..Len(run.calls) : run.calls[i] = step
    ELSE 0

FallbackBeforeBackup ==
    (StepAt("_slice_to_quarter_fallback") > 0 /\ StepAt("_backup_scan") > 0)
        => StepAt("_slice_to_quarter_fallback") < StepAt("_backup_scan")

\* C16 (as claimed): the fallback slice is tried exactly when mapping the
\* primary slice yields no canonical item, also when the primary slice is
\* not empty and nothing in it maps, and before the Backup Scanner.
C16_FallbackWhenNothingMaps ==
    (Sliced /\ ~FactsToItemsRaises(PrimarySlice(LastFile))) =>
        /\ (StepAt("_slice_to_quarter_fallback") > 0)
               <=> (EmptyDict \in FactsToItemsReturns(PrimarySlice(LastFile)))
        /\ FallbackBeforeBackup

\* C16: what holds of the code: the fallback slice is tried exactly when the
\* primary slice is empty, before the mapper runs and so before the Backup
\* Scanner.
C16_FallbackWhenSliceEmpty ==
    Sliced =>
        /\ (StepAt("_slice_to_quarter_fallback") > 0)
               <=> (PrimarySlice(LastFile) = <<>>)
        /\ StepAt("_slice_to_quarter_fallback") > 0
               => StepAt("_slice_to_quarter_fallback") < StepAt("_facts_to_items")
        /\ FallbackBeforeBackup

\* the primary slice holds one fact that maps to nothing; the fallback slice
\* holds an operating income fact and was not tried; the backup scanner ran
\* and load_file returned None
C16_Witness ==
    /\ Sliced
    /\ Len(PrimarySlice(LastFile)) = 1
    /\ FactsToItemsReturns(PrimarySlice(LastFile)) = { EmptyDict }
    /\ FactsToItemsReturns(FallbackSlice(LastFile))
           = { [k \in {"OperatingIncome"} |-> 300] }
    /\ StepAt("_slice_to_quarter_fallback") = 0
    /\ StepAt("_backup_scan") > 0
    /\ run.result = <<>>

\* the primary slice is empty and the fallback slice gave the items
C16_FallbackTried ==
    /\ Sliced
    /\ PrimarySlice(LastFile) = <<>>
    /\ StepAt("_slice_to_quarter_fallback") > 0
    /\ StepAt("_backup_scan") = 0
    /\ DOMAIN run.items # {}

---------------------------------------------------------------------------
(* The coercion run: the numeric coercion of lines 199-204 (and 351-355)   *)
(* on the stripped text of one element.                                    *)

MaxText == 5

TextChars == {"(", ")", "0", "1", "5", ",", "."}

\* the texts coerced: every short text, and the two texts of the examples
Texts ==
    SeqsUpTo(TextChars, MaxText)
    \cup { <<"(", "1", ",", "2", "3", "4", ".", "5", ")">>,
           <<"1", ",", "2", "3", "4", ".", "5">> }

InitCoerce ==
    /\ pc = "text"
    /\ parsed = None
    /\ txt \in Texts
    /\ val = <<>>
    /\ OtherIdle(<<"slice", "map", "stmt", "merge", "pandas", "app">>)

\* val = float(re.sub(...)) inside the try of lines 201-204
CoerceText ==
    /\ pc = "text"
    /\ pc' = "coerced"
    /\ val' = Coerce(txt)
    /\ UNCHANGED <<parsed, txt, sliceVars, mapVars, stmt, mergeVars, appVars>>

NextCoerce == CoerceText

SpecCoerce == InitCoerce /\ [][NextCoerce]_vars

---------------------------------------------------------------------------
(* Claims about the numeric coercion, checked under SpecCoerce.            *)

\* the text matches ^\(?[\d,.]+\)?$
MatchesP2(chars) ==
    LET from == IF chars # <<>> /\ chars[1] = "(" THEN 2 ELSE 1
        to   == IF Len(chars) >= from /\ chars[Len(chars)] = ")"
                THEN Len(chars) - 1 ELSE Len(chars)
    IN  /\ from <= to
        /\ \A i \in from..to : chars[i] \in Digits \cup {",", "."}

\* the digit content of a text: its digits and decimal points
DigitContent(chars) == SelectSeq(chars, LAMBDA c : c \in Digits \cup {"."})

\* the digit content writes a decimal number: one point at most, a digit
IsDecimal(chars) ==
    /\ Cardinality({ i \in 1..Len(chars) : chars[i] = "." }) <= 1
    /\ \E i \in 1..Len(chars) : chars[i] \in Digits

\* the number a decimal writes
DecimalOf(chars) ==
    LET dots == { i \in 1..Len(chars) : chars[i] = "." }
    IN  Float(FALSE, DigitsValue(SelectSeq(chars, LAMBDA c : c \in Digits)),
              IF dots = {} THEN 0 ELSE Len(chars) - (CHOOSE i \in dots : TRUE))

\* the coercion gave the number of the digit content, negated exactly when
\* the text opens with a parenthesis
CoercedAsWritten ==
    /\ val # <<>>
    /\ IsDecimal(DigitContent(txt))
    /\ val[1].digits = DecimalOf(DigitContent(txt)).digits
    /\ val[1].scale = DecimalOf(DigitContent(txt)).scale
    /\ val[1].neg <=> (txt[1] = "(")

\* C12 (as claimed): for every text matching ^\(?[\d,.]+\)?$ the coercion
\* yields a number whose magnitude is the digit content of the text, negative
\* if and only if the text is parenthesized.
C12_CoercionOfEveryMatch ==
    (pc = "coerced" /\ MatchesP2(txt)) => CoercedAsWritten

\* C12: for every text matching ^\(?[\d,.]+\)?$ whose digit content has at
\* most one decimal point and at least one digit, the coercion yields the
\* number of the digit content, negated if and only if the text opens with a
\* parenthesis; for every other matching text float raises and no number is
\* produced.
C12_CoercionOfDecimals ==
    (pc = "coerced" /\ MatchesP2(txt)) =>
        IF IsDecimal(DigitContent(txt)) THEN CoercedAsWritten ELSE val = <<>>

\* the first example of the claim: "(1,234.5)" gives -1234.5
C12_Witness ==
    /\ pc = "coerced"
    /\ txt = <<"(", "1", ",", "2", "3", "4", ".", "5", ")">>
    /\ MatchesP2(txt)
    /\ val = << [neg |-> TRUE, digits |-> 12345, scale |-> 1] >>

\* a matching text with two decimal points: no number
C12_NoNumber ==
    /\ pc = "coerced"
    /\ txt = <<"1", ".", "5", ".", "1">>
    /\ MatchesP2(txt)
    /\ val = <<>>

---------------------------------------------------------------------------
(* The extraction run: lines 80-97 of load_file on one document, whose     *)
(* context elements may repeat an id, and whose facts may refer to an id   *)
(* no context element carries.                                             *)

MaxContexts == 2

\* the context elements: two that carry the same id with different periods,
\* and the year-to-date and prior windows of Q3
FactContexts ==
    { Ctx("D_0701_0930", "duration", 20240701, 20240930, None),
      Ctx("D_0701_0930", "duration", 20240101, 20240930, None),
      Ctx("D_0101_0930", "duration", 20240101, 20240930, None),
      Ctx("D_0101_0630", "duration", 20240101, 20240630, None) }

FactElements ==
    { Element("operatingincome", 300, "KRW", c) :
        c \in {"D_0701_0930", "D_0101_0930", "D_0101_0630"} }
    \cup { Element("sales", 200, "KRW", "D_0701_0930") }

FactSoups ==
    { [contexts |-> cs, units |-> DeclaredUnits, elements |-> els] :
        cs \in SeqsUpTo(FactContexts, MaxContexts),
        els \in SeqsUpTo(FactElements, MaxFacts) }

InitFacts ==
    /\ pc = "parsed"
    /\ parsed \in FactSoups
    /\ txt = <<>>
    /\ val = <<>>
    /\ OtherIdle(<<"slice", "map", "stmt", "merge", "pandas", "app">>)

\* lines 80-86: the fact table; the error of line 82 when it is empty, the
\* report type when there are facts
ExtractFacts ==
    /\ pc = "parsed"
    /\ pc' = "extracted"
    /\ facts' = _xbrl_to_facts(parsed, "A")
    /\ rpt' = IF facts' = <<>> THEN None ELSE _guess_report_type_by_month(facts')
    /\ messages' = IF facts' = <<>>
                   THEN Append(messages, <<"error", "no_facts">>)
                   ELSE messages
    /\ UNCHANGED <<extractVars, f_krw, f_cfs, sliced, mapVars, stmt, mergeVars,
                   uploaded_files, cursor, run, session>>

\* line 94: the primary slice
SlicePrimary ==
    /\ pc = "extracted"
    /\ facts # <<>>
    /\ pc' = "primary"
    /\ f_krw' = CurrencyFilter(facts)
    /\ f_cfs' = ConsolidatedFilter(f_krw')
    /\ sliced' = SelectQuarter(f_cfs', rpt)
    /\ UNCHANGED <<extractVars, facts, rpt, mapVars, stmt, mergeVars, appVars>>

\* lines 95-97: the warning of line 96 and the fallback slice, when the
\* primary slice is empty
SliceFallback ==
    /\ pc = "primary"
    /\ sliced = <<>>
    /\ pc' = "fallback"
    /\ messages' = Append(messages, <<"warning", "qtd_not_found">>)
    /\ sliced' = _slice_to_quarter_fallback(facts, rpt)
    /\ UNCHANGED <<extractVars, facts, rpt, f_krw, f_cfs, mapVars, stmt, mergeVars,
                   uploaded_files, cursor, run, session>>

NextFacts == ExtractFacts \/ SlicePrimary \/ SliceFallback

SpecFacts == InitFacts /\ [][NextFacts]_vars

---------------------------------------------------------------------------
(* Claims about the context table and the joined fact table, checked under *)
(* SpecFacts.                                                              *)

Extracted == pc \in {"extracted", "primary", "fallback"}

\* the ids of the context table
DeclaredIds == { parsed.contexts[i].context_id : i \in 1..Len(parsed.contexts) }

\* the first context element with an id, in tree order
FirstContext(id) ==
    parsed.contexts[CHOOSE i \in 1..Len(parsed.contexts) :
        /\ parsed.contexts[i].context_id = id
        /\ \A j \in 1..(i - 1) : parsed.contexts[j].context_id # id]

\* the row a fact element has in the joined table when its context is the
\* first one declared with its id, or none
RowOfFact(el) ==
    Joined(FactRow(el, parsed.units, "A"),
           IF el.contextRef \in DeclaredIds THEN FirstContext(el.contextRef)
           ELSE NullContext)

\* every fact element has one row in the joined table, in document order,
\* with the context first declared for its id
OneRowPerFact ==
    facts = [k \in 1..Len(parsed.elements) |-> RowOfFact(parsed.elements[k])]

DistinctIds == Cardinality(DeclaredIds) = Len(parsed.contexts)

\* C19 (as claimed): the context table has at most one row per context id,
\* the first occurrence being authoritative, so every extracted fact joins
\* to at most one context and appears exactly once in the joined fact table,
\* also when the document declares a context id more than once.
C19_OneRowPerFact ==
    (Extracted /\ parsed.contexts # <<>>) => OneRowPerFact

\* C19: what holds of the code: the same when no two context elements carry
\* the same id; a fact whose id is declared n times has n rows.
C19_OneRowPerFactWhenIdsDistinct ==
    (Extracted /\ parsed.contexts # <<>> /\ DistinctIds) => OneRowPerFact

\* one fact, its context id declared twice with different periods: two rows
\* in the joined table, one per declaration
C19_Witness ==
    /\ Extracted
    /\ Len(parsed.elements) = 1
    /\ Len(parsed.contexts) = 2
    /\ ~DistinctIds
    /\ Len(facts) = 2
    /\ facts[1].start = 20240701 /\ facts[2].start = 20240101
    /\ facts[1].value = facts[2].value

\* the fact elements whose contextRef matches no context element
Unresolved ==
    { k \in 1..Len(parsed.elements) :
        parsed.elements[k].contextRef \notin DeclaredIds }

\* the rows of a table that come from a fact of an undeclared context (a
\* synthesized row carries the id of its YTD row)
FromUndeclared(r) ==
    IF IsSynthesized(r) THEN r.context_id[1] \notin DeclaredIds
    ELSE r.context_id \notin DeclaredIds

KeptWithNullContext ==
    \A k \in Unresolved :
        \E i \in 1..Len(facts) :
            facts[i] = Joined(FactRow(parsed.elements[k], parsed.units, "A"),
                              NullContext)

NeverSelected ==
    pc \in {"primary", "fallback"} =>
        \A i \in 1..Len(sliced) : ~FromUndeclared(sliced[i])

\* C20 (as claimed): for every document, also one that declares no context
\* with an id, each fact whose contextRef matches no declared context is
\* kept in the joined fact table with null context fields, and no such fact
\* is in the output of the Period Selector, on the primary or the fallback
\* path.
C20_UnresolvedKeptNeverSelected ==
    Extracted => (KeptWithNullContext /\ NeverSelected)

\* C20: what holds of the code: the same for the documents that declare at
\* least one context with an id; for the others the fact table is empty.
C20_UnresolvedKeptWhenContextsDeclared ==
    Extracted =>
        /\ parsed.contexts # <<>> => KeptWithNullContext
        /\ parsed.contexts = <<>> => facts = <<>>
        /\ NeverSelected

\* a document with a fact and no context element with an id: no row at all
C20_Witness ==
    /\ Extracted
    /\ parsed.contexts = <<>>
    /\ Len(parsed.elements) = 1
    /\ Unresolved = {1}
    /\ facts = <<>>

\* a Q3 document with a resolved year-to-date fact and a fact of the
\* undeclared context D_0701_0930: the second is kept with null context
\* fields and is in neither slice
C20_UnresolvedLeftOut ==
    /\ pc = "fallback"
    /\ rpt = "Q3"
    /\ Len(parsed.elements) = 2
    /\ Unresolved = {2}
    /\ parsed.elements[2].contextRef = "D_0701_0930"
    /\ facts[2].period_type = None /\ facts[2].start = NaT
    /\ sliced = <<>>

---------------------------------------------------------------------------
(* The period run: lines 80-97 of load_file on documents whose contexts    *)
(* include a window that starts in the year before, an end date outside    *)
(* the quarter ends, an end date that does not parse, a window in a        *)
(* foreign currency and a consolidated instant.                            *)

\* the context elements of the documents, in tree order
PeriodContexts ==
    << Ctx("D_0101_0331", "duration", 20240101, 20240331, None),
       Ctx("D_0701_0930", "duration", 20240701, 20240930, None),
       Ctx("P_0701_0930", "duration", 20230701, 20240930, None),
       Ctx("D_0101_0930", "duration", 20240101, 20240930, None),
       Ctx("D_0101_0630", "duration", 20240101, 20240630, None),
       Ctx("P_0101_0630", "duration", 20230101, 20240630, None),
       Ctx("D_0601_0831", "duration", 20240601, 20240831, None),
       Ctx("D_0701_bad",  "duration", 20240701, NaT,      None),
       Ctx("D_1001_1231", "duration", 20241001, 20241231, None),
       Ctx("I_0930_CFS",  "instant",  NaT,      20240930, "True") >>

PeriodElements ==
    { Element("operatingincome", 300, "KRW", PeriodContexts[i].context_id) :
        i \in 1..Len(PeriodContexts) }
    \cup { Element("operatingincome", 200, "KRW", "D_0101_0630"),
           Element("operatingincome", 300, "USD", "D_1001_1231") }

PeriodSoups ==
    { [contexts |-> PeriodContexts, units |-> DeclaredUnits, elements |-> els] :
        els \in SeqsUpTo(PeriodElements, MaxFacts) }

InitPeriod ==
    /\ pc = "parsed"
    /\ parsed \in PeriodSoups
    /\ txt = <<>>
    /\ val = <<>>
    /\ OtherIdle(<<"slice", "map", "stmt", "merge", "pandas", "app">>)

SpecPeriod == InitPeriod /\ [][NextFacts]_vars

---------------------------------------------------------------------------
(* Claims about the report type and the windows, checked under SpecPeriod. *)

\* the parseable end dates of the duration facts of the joined table
DurationEnds ==
    { facts[i].end : i \in { k \in 1..Len(facts) : IsDuration(facts[k]) } } \ {NaT}

ReportTypeOfMonth(m) ==
    CASE m = 3 -> "Q1" [] m = 6 -> "Q2" [] m = 9 -> "Q3" [] m = 12 -> "Q4"
      [] OTHER -> "Q3"

\* C21: the report type is given by the month of the latest end date among
\* the duration facts: 3 Q1, 6 Q2, 9 Q3, 12 Q4, any other month Q3; and it
\* is Q3 when no duration fact has an end date that parses.
C21_ReportTypeByMonth ==
    (Extracted /\ facts # <<>>) =>
        rpt = IF DurationEnds = {} THEN "Q3"
              ELSE ReportTypeOfMonth(MonthOf(SetMax(DurationEnds)))

\* a document whose latest duration end is in June next to an instant of
\* September: Q2
C21_Witness ==
    /\ Extracted
    /\ DurationEnds # {}
    /\ SetMax(DurationEnds) = 20240630
    /\ \E i \in 1..Len(facts) : facts[i].period_type = "instant" /\ facts[i].end = 20240930
    /\ rpt = "Q2"

\* a latest duration end in August: the default, Q3
C21_OtherMonth ==
    /\ Extracted
    /\ DurationEnds # {}
    /\ MonthOf(SetMax(DurationEnds)) = 8
    /\ rpt = "Q3"

\* a duration fact whose end date does not parse, and no other: Q3
C21_NoEndDate ==
    /\ Extracted
    /\ \E i \in 1..Len(facts) : IsDuration(facts[i])
    /\ DurationEnds = {}
    /\ rpt = "Q3"

\* the last quarter
C21_Q4 ==
    /\ Extracted
    /\ DurationEnds # {}
    /\ MonthOf(SetMax(DurationEnds)) = 12
    /\ rpt = "Q4"

\* a latest duration end in March: the first quarter
C21_Q1 ==
    /\ Extracted
    /\ DurationEnds # {}
    /\ SetMax(DurationEnds) = 20240331
    /\ rpt = "Q1"

\* a latest duration end in September, after one in March: the third quarter
C21_Q3 ==
    /\ Extracted
    /\ 20240331 \in DurationEnds
    /\ SetMax(DurationEnds) = 20240930
    /\ rpt = "Q3"

\* the facts the Period Selector reads for the result: the rows of the direct
\* window when the result is that window, the YTD and the prior rows when
\* the result is synthesized
SelectedInputs ==
    IF Synthesizes THEN Range(YtdWindow) \cup Range(PriorWindow)
    ELSE Range(DirectWindow)

InTargetYear(r) ==
    /\ r.start # NaT /\ YearOf(r.start) = TargetYear
    /\ r.end # NaT /\ YearOf(r.end) = TargetYear

\* C28 (as claimed): every fact selected as the directly tagged window, and
\* every fact used as YTD or prior input of the synthesis, has its start
\* date and its end date in the target fiscal year.
C28_WindowInTargetYear ==
    pc = "primary" =>
        /\ sliced # <<>> => (Synthesizes \/ sliced = DirectWindow)
        /\ \A r \in SelectedInputs : InTargetYear(r)

\* C28: what holds of the code: every such fact ends in the target year and
\* has the start month and the end month of its window; the year of the
\* start date is not looked at.
C28_WindowEndsInTargetYear ==
    pc = "primary" =>
        /\ sliced # <<>> => (Synthesizes \/ sliced = DirectWindow)
        /\ \A r \in SelectedInputs :
               /\ r.end # NaT /\ YearOf(r.end) = TargetYear
               /\ r.start # NaT
               /\ <<MonthOf(r.start), MonthOf(r.end)>> \in
                     { <<1, 3>>, <<4, 6>>, <<1, 6>>, <<7, 9>>, <<1, 9>>,
                       <<10, 12>>, <<1, 12>> }

\* a Q3 document whose only duration fact runs from July 2023 to September
\* 2024: it is the Q3 window
C28_Witness ==
    /\ pc = "primary"
    /\ rpt = "Q3"
    /\ Len(facts) = 1
    /\ facts[1].start = 20230701 /\ facts[1].end = 20240930
    /\ sliced = facts

\* a prior window that starts in January 2023 is subtracted from the
\* year-to-date value of 2024
C28_PriorFromEarlierYear ==
    /\ pc = "primary"
    /\ rpt = "Q3"
    /\ Synthesizes
    /\ Len(PriorWindow) = 1
    /\ PriorWindow[1].start = 20230101
    /\ Len(sliced) = 1
    /\ sliced[1].value = 0

\* the latest end date among the duration facts handed to window selection
\* (line 246), NaT when there is none
SelectorEndMax == EndMax(SelectSeq(f_cfs, IsDuration))

QuarterEnd(d) == MonthOf(d) \in {3, 6, 9, 12}

\* C30 (as claimed): when the report type comes from an end month in 3, 6,
\* 9, 12, the latest duration end date that gave the report type is the
\* date that fixes the target fiscal year: the latest end date among the
\* duration facts left by the currency and consolidation filters, which so
\* has the month of the report type.
C30_SameLatestEnd ==
    (pc = "primary" /\ DurationEnds # {} /\ QuarterEnd(SetMax(DurationEnds))
        /\ SelectorEndMax # NaT) =>
        /\ SelectorEndMax = SetMax(DurationEnds)
        /\ rpt = ReportTypeOfMonth(MonthOf(SelectorEndMax))

\* C30: what holds of the code: the date that fixes the target year is not
\* later than the one that gave the report type, and it is the same date
\* when the filters drop no fact.
C30_SameLatestEndWhenNothingFiltered ==
    (pc = "primary" /\ DurationEnds # {} /\ QuarterEnd(SetMax(DurationEnds))
        /\ SelectorEndMax # NaT) =>
        /\ SelectorEndMax <= SetMax(DurationEnds)
        /\ f_cfs = facts =>
               /\ SelectorEndMax = SetMax(DurationEnds)
               /\ rpt = ReportTypeOfMonth(MonthOf(SelectorEndMax))

\* a Jul-Sep fact in KRW next to an Oct-Dec fact in USD: the report type is
\* Q4, the target year comes from 30 September, and the Q4 windows are
\* empty although the document holds a Q3 window in KRW
C30_Witness ==
    /\ pc = "primary"
    /\ Len(facts) = 2
    /\ SetMax(DurationEnds) = 20241231
    /\ rpt = "Q4"
    /\ Len(f_cfs) = 1
    /\ SelectorEndMax = 20240930
    /\ sliced = <<>>

---------------------------------------------------------------------------
(* _is_consolidated_context.                                               *)
(*                                                                         *)
(* A context element is the record of what the function reads from it:     *)
(*   descendants  its descendant elements, in tree order, each             *)
(*                [name, string, members]: the tag name, the text placed   *)
(*                directly in the element (None when there is none) and    *)
(*                the texts el.get_text(' ') of the element's own          *)
(*                descendant elements, in tree order                       *)

\* t.name.lower().endswith('segment')
IsSegment(t) ==
    EndsWith(Lower(Spell[t.name]), <<"s", "e", "g", "m", "e", "n", "t">>)

RECURSIVE JoinTexts(_)
\* ' '.join(texts)
JoinTexts(texts) ==
    IF texts = <<>> THEN <<>>
    ELSE IF Len(texts) = 1 THEN Spell[texts[1]]
    ELSE Spell[texts[1]] \o <<" ">> \o JoinTexts(Tail(texts))

\* the keys of line 23
ConsolidatedKeys ==
    { <<"c", "o", "n", "s", "o", "l", "i", "d", "a", "t", "e", "d">>,
      <<"U+C5F0", "U+ACB0">>,
      <<"c", "f", "s">>,
      <<"c", "o", "n", "s", "o", "l", "i", "d", "a", "t", "e", "d", "m", "e", "m", "b", "e", "r">>,
      <<"c", "o", "n", "s", "o", "l", "i", "d", "a", "t", "e", "d", "g", "r", "o", "u", "p", "m", "e", "m", "b", "e", "r">>,
      <<"d", "a", "r", "t", ":", "c", "f", "s">> }

\* the keys of line 25
SeparateKeys ==
    { <<"s", "e", "p", "a", "r", "a", "t", "e">>,
      <<"U+BCC4", "U+B3C4">>,
      <<"s", "e", "p", "a", "r", "a", "t", "e", "m", "e", "m", "b", "e", "r">>,
      <<"d", "a", "r", "t", ":", "s", "e", "p", "a", "r", "a", "t", "e">> }

\* lines 21-27, for the segment element found
ClassifySegment(seg) ==
    LET t == Lower(JoinTexts(seg.members))
    IN  IF \E k \in ConsolidatedKeys : Contains(t, k) THEN "True"
        ELSE IF \E k \in SeparateKeys : Contains(t, k) THEN "False"
        ELSE None

\* faulty variant: a context without a segment counts as separate
_is_consolidated_context_FalseByDefault(ctx) ==
    LET segs == SelectSeq(ctx.descendants, IsSegment)
    IN  IF segs = <<>> THEN "False" ELSE ClassifySegment(segs[1])

\* _is_consolidated_context(ctx): "True", "False" or None
_is_consolidated_context(ctx) ==
    LET segs == SelectSeq(ctx.descendants, IsSegment)
    IN  IF segs = <<>> THEN None ELSE ClassifySegment(segs[1])

---------------------------------------------------------------------------
(* The scope run: _is_consolidated_context on one context element.         *)

MaxMembers == 2
MaxChildren == 2

MemberTexts ==
    { "dart:ConsolidatedMember", "dart:SeparateMember", "dart:cfs",
      "ko-consolidated", "ko-separate", "dart:OperatingSegmentsMember" }

Child(n, own, ms) == [name |-> n, string |-> own, members |-> ms]

\* the segment elements: up to MaxMembers member elements, one that holds
\* its text directly, one that holds a text directly next to a member
\* element, one with a capitalised name
ScopeSegments ==
    { Child("xbrli:segment", None, ms) : ms \in SeqsUpTo(MemberTexts, MaxMembers) }
    \cup { Child("xbrli:segment", "dart:ConsolidatedMember", <<>>),
           Child("xbrli:segment", "dart:ConsolidatedMember",
                 <<"dart:SeparateMember">>),
           Child("Segment", None, <<"dart:SeparateMember">>) }

\* elements that are no segment
ScopeOthers ==
    { Child("xbrli:entity", None, <<"dart:ConsolidatedMember">>),
      Child("xbrli:period", None, <<"2024-09-30">>) }

\* a context: up to MaxChildren elements that are no segment, then no
\* segment, one, or one followed by a second, consolidated one
ScopeContextElements ==
    { [descendants |-> before \o segs \o after] :
        before \in SeqsUpTo(ScopeOthers, MaxChildren),
        segs \in SeqsUpTo(ScopeSegments, 1),
        after \in { <<>>, << Child("xbrli:segment", None, <<"dart:cfs">>) >> } }

InitScope ==
    /\ pc = "context"
    /\ parsed \in ScopeContextElements
    /\ txt = <<>>
    /\ val = <<>>
    /\ OtherIdle(<<"slice", "map", "stmt", "merge", "pandas", "app">>)

\* line 178: the scope of the context
ClassifyContext ==
    /\ pc = "context"
    /\ pc' = "classified"
    /\ val' = << _is_consolidated_context(parsed) >>
    /\ UNCHANGED <<parsed, txt, sliceVars, mapVars, stmt, mergeVars, appVars>>

NextScope == ClassifyContext

SpecScope == InitScope /\ [][NextScope]_vars

---------------------------------------------------------------------------
(* Claims about the consolidation scope, checked under SpecScope.          *)

Segments == SelectSeq(parsed.descendants, IsSegment)

\* the lower-cased text of the member elements of the first segment
SegmentText == Lower(JoinTexts(Segments[1].members))

\* the lower-cased text of everything below the first segment: the text it
\* holds directly and the text of its member elements
SegmentAllText ==
    Lower(JoinTexts((IF Segments[1].string = None THEN <<>>
                     ELSE << Segments[1].string >>) \o Segments[1].members))

NamesConsolidated(t) ==
    \/ Contains(t, <<"c", "o", "n", "s", "o", "l", "i", "d", "a", "t", "e", "d">>)
    \/ Contains(t, <<"c", "f", "s">>)
    \/ Contains(t, <<"U+C5F0", "U+ACB0">>)

NamesSeparate(t) ==
    \/ Contains(t, <<"s", "e", "p", "a", "r", "a", "t", "e">>)
    \/ Contains(t, <<"U+BCC4", "U+B3C4">>)

SaysConsolidated == NamesConsolidated(SegmentText)

SaysSeparate == NamesSeparate(SegmentText)

\* C22 (as claimed): the scope is unknown when the context has no segment
\* element; otherwise it is true when the segment's concatenated,
\* lower-cased descendant text (the text the segment holds directly
\* included) contains a consolidation-indicating substring, false when it
\* contains a separate-entity-indicating substring and no
\* consolidation-indicating one, and unknown otherwise.
C22_TernaryScopeOfAllText ==
    pc = "classified" =>
        /\ val = << IF Segments = <<>> THEN None
                    ELSE IF NamesConsolidated(SegmentAllText) THEN "True"
                    ELSE IF NamesSeparate(SegmentAllText) THEN "False"
                    ELSE None >>
        /\ val = <<"False">> =>
               /\ Segments # <<>>
               /\ NamesSeparate(SegmentAllText)
               /\ ~NamesConsolidated(SegmentAllText)

\* C22: the scope is unknown when the context has no segment element;
\* otherwise it is true when the lower-cased text of the segment's
\* descendant elements contains a consolidation-indicating substring, false
\* when it contains a separate-entity-indicating substring and no
\* consolidation-indicating one, and unknown otherwise; so it is false only
\* for a segment whose text says separate. Text that the segment holds
\* directly, outside every element below it, is not read.
C22_TernaryScope ==
    pc = "classified" =>
        /\ val = << IF Segments = <<>> THEN None
                    ELSE IF SaysConsolidated THEN "True"
                    ELSE IF SaysSeparate THEN "False"
                    ELSE None >>
        /\ val = <<"False">> => (Segments # <<>> /\ SaysSeparate /\ ~SaysConsolidated)

\* a context with an entity and a period and no segment: unknown
C22_Witness ==
    /\ pc = "classified"
    /\ Len(parsed.descendants) = 2
    /\ Segments = <<>>
    /\ val = <<None>>

\* a segment that holds the consolidated member name directly, with no
\* element below it: unknown
C22_DirectText ==
    /\ pc = "classified"
    /\ Segments # <<>>
    /\ Segments[1].string = "dart:ConsolidatedMember"
    /\ Segments[1].members = <<>>
    /\ val = <<None>>

\* a segment that holds the consolidated member name directly next to a
\* separate member element: separate
C22_DirectTextBesideMember ==
    /\ pc = "classified"
    /\ Segments # <<>>
    /\ Segments[1].string = "dart:ConsolidatedMember"
    /\ Segments[1].members = <<"dart:SeparateMember">>
    /\ val = <<"False">>

\* a segment whose member is not recognised: unknown
C22_Unrecognised ==
    /\ pc = "classified"
    /\ Segments # <<>>
    /\ Segments[1].members = <<"dart:OperatingSegmentsMember">>
    /\ val = <<None>>

\* a segment that names both scopes: consolidated
C22_BothNamed ==
    /\ pc = "classified"
    /\ Segments # <<>>
    /\ Segments[1].members = <<"ko-separate", "dart:cfs">>
    /\ val = <<"True">>

\* a separate segment under a capitalised tag name, after an entity element
\* whose text says consolidated: separate
C22_Separate ==
    /\ pc = "classified"
    /\ Len(parsed.descendants) = 2
    /\ parsed.descendants[1].name = "xbrli:entity"
    /\ parsed.descendants[2].name = "Segment"
    /\ val = <<"False">>

---------------------------------------------------------------------------
(* The scan run: _backup_scan on one document.                             *)

MaxLeaves == 2

\* a numeric leaf nested in the element named p
Nested(n, v, p) ==
    [name |-> n, value |-> v, unitRef |-> "KRW", contextRef |-> "D_0701_0930",
     parent |-> p]

\* leaves named after the items and one that matches no pattern, below and
\* above the cut of line 356, and a value element nested in a netincome
\* element
ScanElements ==
    { Element(n, v, "KRW", "D_0701_0930") :
        n \in { "sales", "costofsales", "grossprofit",
                "sellingandadministrativeexpenses", "operatingincome", "assets" },
        v \in { 5000, 20000, -20000, 30000 } }
    \cup { Nested("value", v, "netincome") : v \in { 5000, 20000, -20000, 30000 } }

ScanSoups ==
    { [contexts |-> DeclaredContexts, units |-> DeclaredUnits, elements |-> els] :
        els \in SeqsUpTo(ScanElements, MaxLeaves) }

InitScan ==
    /\ pc = "parsed"
    /\ parsed \in ScanSoups
    /\ txt = <<>>
    /\ val = <<>>
    /\ OtherIdle(<<"slice", "map", "stmt", "merge", "pandas", "app">>)

\* line 102: items = self._backup_scan(soup)
BackupScan ==
    /\ pc = "parsed"
    /\ pc' = "scanned"
    /\ items' = _backup_scan(parsed)
    /\ UNCHANGED <<extractVars, sliceVars, raised, stmt, mergeVars, appVars>>

NextScan == BackupScan

SpecScan == InitScan /\ [][NextScan]_vars

---------------------------------------------------------------------------
(* Claims about the Backup Scanner, checked under SpecScan.                *)

\* the numeric leaves whose descriptor matches the pattern of an item
LeavesOf(std) ==
    { i \in 1..Len(parsed.elements) : BackupRegex(std, InfoOf(parsed.elements[i])) }

\* the first leaf of the largest magnitude among those of an item
LargestLeaf(std) ==
    CHOOSE i \in LeavesOf(std) :
        /\ \A j \in LeavesOf(std) :
               Abs(parsed.elements[j].value) <= Abs(parsed.elements[i].value)
        /\ \A j \in LeavesOf(std) :
               Abs(parsed.elements[j].value) = Abs(parsed.elements[i].value) => i <= j

C23_BelowCut ==
    /\ pc = "scanned"
    /\ Len(parsed.elements) = 2
    /\ parsed.elements[1].name = "grossprofit" /\ parsed.elements[1].value = 5000
    /\ parsed.elements[2].name = "value" /\ parsed.elements[2].value = 30000
    /\ DOMAIN items = {"NetIncome"}
    /\ items["NetIncome"] = 30000

\* every one of the six items is found by some scan
C23_Sales == pc = "scanned" /\ "Sales" \in DOMAIN items
C23_CostOfSales == pc = "scanned" /\ "CostOfSales" \in DOMAIN items
C23_SGA == pc = "scanned" /\ "SGA" \in DOMAIN items
C23_GrossProfit == pc = "scanned" /\ "GrossProfit" \in DOMAIN items

---------------------------------------------------------------------------
(* _safe_parse, lines 117-124.                                             *)
(*                                                                         *)
(* A decoded text is the record of what each parser makes of it:           *)
(*   strict, lenient  the outcome of BeautifulSoup(text, 'lxml-xml') and   *)
(*                    of BeautifulSoup(text, 'xml'): "tree", "empty" (a    *)
(*                    soup in which find() finds no element) or "raises"   *)
(*   html             the outcome of BeautifulSoup(text, 'html.parser'):   *)
(*                    "tree" or "empty"                                    *)
(*   tree             the soup a parser builds when its outcome is "tree"  *)
(* The result is the soup and the list of the parsers tried, in order.     *)

\* a soup without any element
EmptyTree == [contexts |-> <<>>, units |-> <<>>, elements |-> <<>>]

Parsed(soup, tried) == [soup |-> soup, tried |-> tried]

\* line 123: the except branch
ParseHtml(content, tried) ==
    Parsed(IF content.html = "tree" THEN content.tree ELSE EmptyTree,
           tried \o <<"html.parser">>)

\* faulty variant: the HTML parser is also tried after an empty tree of the
\* second XML parser
ParseLenient_ThenHtml(content) ==
    IF content.lenient = "tree"
    THEN Parsed(content.tree, <<"lxml-xml", "xml">>)
    ELSE ParseHtml(content, <<"lxml-xml", "xml">>)

\* line 121, inside the try block
ParseLenient(content) ==
    CASE content.lenient = "raises" -> ParseHtml(content, <<"lxml-xml", "xml">>)
      [] content.lenient = "tree"   -> Parsed(content.tree, <<"lxml-xml", "xml">>)
      [] OTHER                      -> Parsed(EmptyTree, <<"lxml-xml", "xml">>)

\* _safe_parse(content_str)
_safe_parse(content) ==
    CASE content.strict = "raises" -> ParseHtml(content, <<"lxml-xml">>)
      [] content.strict = "tree"   -> Parsed(content.tree, <<"lxml-xml">>)
      [] OTHER                     -> ParseLenient(content)

---------------------------------------------------------------------------
(* The parse run: lines 77-97 of load_file on one decoded text.            *)

XmlOutcomes == {"tree", "empty", "raises"}

DecodedTexts ==
    { [strict |-> a, lenient |-> b, html |-> c, tree |-> Doc(els)] :
        a \in XmlOutcomes, b \in XmlOutcomes, c \in {"tree", "empty"},
        els \in SeqsUpTo(FactElements, MaxFacts) }

InitParse ==
    /\ pc = "decoded"
    /\ txt \in DecodedTexts
    /\ parsed = None
    /\ val = <<>>
    /\ OtherIdle(<<"slice", "map", "stmt", "merge", "pandas", "app">>)

\* line 77: soup = self._safe_parse(xml)
SafeParse ==
    /\ pc = "decoded"
    /\ pc' = "parsed"
    /\ parsed' = _safe_parse(txt).soup
    /\ val' = _safe_parse(txt).tried
    /\ UNCHANGED <<txt, sliceVars, mapVars, stmt, mergeVars, appVars>>

NextParse == SafeParse \/ ExtractFacts \/ SlicePrimary \/ SliceFallback

SpecParse == InitParse /\ [][NextParse]_vars

---------------------------------------------------------------------------
(* Claims about the parser fallback, checked under SpecParse.              *)

Tried(parser) == parser \in Range(val)

Fails(outcome) == outcome \in {"empty", "raises"}

\* the strict XML parser comes first, and the lenient one is tried exactly
\* when the strict one gives an empty tree
StrictThenLenient ==
    /\ val[1] = "lxml-xml"
    /\ Tried("xml") <=> txt.strict = "empty"
    /\ Tried("xml") => val[2] = "xml"

\* C24 (as claimed): the strict XML parser is tried first, the lenient XML
\* parser when the strict one gives an empty tree, and the HTML parser
\* whenever the lenient one also fails to give a tree, by raising or by
\* giving an empty tree.
C24_HtmlWhenBothXmlFail ==
    pc # "decoded" =>
        /\ StrictThenLenient
        /\ (txt.strict = "empty" /\ Fails(txt.lenient)) => Tried("html.parser")

\* C24: what holds of the code: the HTML parser is tried exactly when one
\* of the XML parsers raises; an empty tree of the lenient parser is
\* returned as it is.
C24_HtmlWhenXmlRaises ==
    pc # "decoded" =>
        /\ StrictThenLenient
        /\ Tried("html.parser") <=>
               \/ txt.strict = "raises"
               \/ txt.strict = "empty" /\ txt.lenient = "raises"
        /\ (txt.strict = "empty" /\ txt.lenient = "empty") => parsed = EmptyTree

\* a text of which both XML parsers make an empty tree and the HTML parser
\* a tree with a fact: the HTML parser is not tried and no fact is read
C24_Witness ==
    /\ pc = "extracted"
    /\ txt.strict = "empty" /\ txt.lenient = "empty" /\ txt.html = "tree"
    /\ txt.tree.elements # <<>>
    /\ val = <<"lxml-xml", "xml">>
    /\ parsed = EmptyTree
    /\ facts = <<>>

\* the lenient parser raises: the HTML parser gives the tree
C24_HtmlReached ==
    /\ pc = "extracted"
    /\ val = <<"lxml-xml", "xml", "html.parser">>
    /\ parsed = txt.tree
    /\ facts # <<>>

====
